---- MODULE Spec2Model ----
(***************************************************************************)
(* Flash programming driver of the PIC32CX2051MTG: the EEFC command layer  *)
(* (efc.c), the flash management layer (flashd.c) and the debugger         *)
(* adapter (FlashPrg.c), over a model of the flash controller and array.   *)
(*                                                                         *)
(* The geometry is the chip's own (512-byte pages, 16 pages per lock       *)
(* region, 4096 pages, 256 lock bits); the flash array is kept sparsely:   *)
(* `flash` holds the pages programmed so far and `fill` describes every    *)
(* other byte (the power-on pattern, or 0xFF after an erase).              *)
(***************************************************************************)
EXTENDS Integers, Sequences, FiniteSets, TLC

\* ------------------------------------------------------------- geometry
IFLASH_PAGE_SIZE == 512
IFLASH_SECTOR_SIZE == 131072
IFLASH_LOCK_REGION_SIZE == 8192
IFLASH_NB_OF_PAGES == 4096
IFLASH_NB_OF_LOCK_BITS == 256
IFLASH0_CNC_ADDR == 16777216
IFLASH_SIZE == 2097152
GPNVM_NUM_MAX == 9

\* EFC command codes
SEFC_FCMD_GETD == 0
SEFC_FCMD_WP == 1
SEFC_FCMD_EA == 5
SEFC_FCMD_SLB == 8
SEFC_FCMD_CLB == 9
SEFC_FCMD_GLB == 10
SEFC_FCMD_SGPB == 11
SEFC_FCMD_CGPB == 12
SEFC_FCMD_GGPB == 13
SEFC_FCMD_STUI == 14
SEFC_FCMD_SPUI == 15
SEFC_FCMD_ES == 17

\* EEFC_FSR status bits and the EEFC_FCR key (device header)
EEFC_FSR_FRDY == 1
EEFC_FSR_FCMDE == 2
EEFC_FSR_FLOCKE == 4
EEFC_FSR_FLERR == 8
EEFC_FCR_FKEY_PASSWD == 1509949440

\* ------------------------------------------------------------- bounds
\* largest number of whole pages in one FLASHD_Write buffer
MaxPages == 2
\* driver calls in one behaviour, FLASHD_Initialize not counted
MaxCalls == 1
\* the error of a call is injected at its 1st .. MaxErrPos-th command
MaxErrPos == 2
MaxBusy == 2
MaxCmds == 2

\* ------------------------------------------------------------- machine words
U8(x) == x % 256
U16(x) == x % 65536
Min(a, b) == IF a < b THEN a ELSE b
Pow2(n) == 2 ^ n

\* A 32-bit word is kept as its two 16-bit halves <<low, high>> and an
\* address above 2^31 as its top three bits and low 29 bits [hi, lo]; the
\* driver's other 32-bit values stay below 2^31 on the inputs drawn here.
Bit(w, j) == (w[(j \div 16) + 1] \div Pow2(j % 16)) % 2

\* w & (EEFC_FSR_FLOCKE | EEFC_FSR_FCMDE | EEFC_FSR_FLERR): bits 1..3 of w
ErrorFlags(w) == ((w \div 2) % 8) * 2

\* x | 0xA0000000 on 32 bits: bits 31 and 29 forced to 1, bit 30 kept
OrWriteWindow(x) ==
    LET hi == x \div 536870912
        lo == x % 536870912
    IN  [hi |-> 5 + 2 * ((hi \div 2) % 2), lo |-> lo]

\* a + n on 32 bits, for a write-window address a
WinAdd(a, n) ==
    LET s == a.lo + n
    IN  [hi |-> (a.hi + (s \div 536870912)) % 8, lo |-> s % 536870912]

\* the flash address a write-window (or plain) address decodes to
FlashAlias(a) ==
    IF a.hi \in {5, 7} THEN (a.hi - 5) * 536870912 + a.lo
    ELSE a.hi * 536870912 + a.lo

\* f itself; the comparison makes TLC tabulate f once instead of
\* re-evaluating its defining expression at every application
Tabulated(f) == IF f = f THEN f ELSE f

\* little-endian 32-bit word of four bytes, and byte k of a word
WordOf(b0, b1, b2, b3) == <<b0 + 256 * b1, b2 + 256 * b3>>
ByteOf(w, k) == (w[(k \div 2) + 1] \div Pow2(8 * (k % 2))) % 256

\* ------------------------------------------------------------- state
VARIABLES
    flash,          \* programmed pages: page number -> [0..PAGE_SIZE-1 -> byte]
    fill,           \* what every page outside DOMAIN flash holds
    latch,          \* the controller's page latch buffer (write window)
    lockBits,       \* set of locked lock-region numbers
    gpnvm,          \* set of GPNVM bits that are set
    frr,            \* words the result register EEFC_FRR will deliver, in order
    pdwPageBuffer,  \* flashd.c's static _pdwPageBuffer, as bytes
    dwUseIAP,       \* flashd.c's static _dwUseIAP
    call,           \* the last driver call: name, arguments, result, bus events
    pre,            \* the hardware state when the last call started
    ncalls,         \* driver calls made so far (FLASHD_Initialize not counted)
    dev_base_adr,   \* FlashPrg.c's static dev_base_adr
    task,           \* the call in progress, where calls run command by command
    writers,        \* two FLASHD_Write calls in progress, where their steps interleave
    initDone        \* whether FlashPrg.c's Init has been called

vars == <<flash, fill, latch, lockBits, gpnvm, frr, pdwPageBuffer, dwUseIAP,
          call, pre, ncalls, dev_base_adr, task, writers, initDone>>

PageIdx == 0 .. (IFLASH_PAGE_SIZE - 1)
PagesPerSector == IFLASH_SECTOR_SIZE \div IFLASH_PAGE_SIZE
PagesPerRegion == IFLASH_LOCK_REGION_SIZE \div IFLASH_PAGE_SIZE

\* power-on content of the byte at flash address a, for pattern number seed
Pattern(seed, a) == (a * 31 + (a \div IFLASH_PAGE_SIZE) * 3 + seed * 7) % 256

\* the byte at flash address a in flash array (fl, fi)
ByteIn(fl, fi, a) ==
    LET rel == a - IFLASH0_CNC_ADDR
        pg == rel \div IFLASH_PAGE_SIZE
    IN  IF pg \in DOMAIN fl THEN fl[pg][rel % IFLASH_PAGE_SIZE]
        ELSE IF fi.all \/ (pg \div PagesPerSector) \in fi.sectors THEN 255
        ELSE Pattern(fi.seed, a)

\* The machine a handler runs on: the hardware, the driver's statics, the
\* bus events of the call so far and the errors the controller will report
\* (errs[k] is the error flags of the k-th command of the call); busy is the
\* number of status reads that find the ready bit clear after each command.
Machine(errs) ==
    [flash |-> flash, fill |-> fill, latch |-> latch, lockBits |-> lockBits,
     gpnvm |-> gpnvm, frr |-> frr, buf |-> pdwPageBuffer, useIAP |-> dwUseIAP,
     ev |-> <<>>, ncmd |-> 0, errs |-> errs, fsr |-> EEFC_FSR_FRDY,
     dwError |-> 0, ret |-> 0, out |-> <<>>, busy |-> 0, wait |-> 0, uid |-> FALSE,
     asserted |-> FALSE]

MachineBusy(errs, busy) == [Machine(errs) EXCEPT !.busy = busy]

FlashByte(m, a) == ByteIn(m.flash, m.fill, a)

\* a CPU read of one byte at write-window address a
ReadByte(m, a) == FlashByte(m, FlashAlias(a))

\* ------------------------------------------------------------- controller
\* packed lock bits, word i of IFLASH_NB_OF_LOCK_BITS / 32
RECURSIVE PackBits(_, _, _)
PackBits(S, lo, n) ==
    IF n = 0 THEN 0
    ELSE (IF lo \in S THEN 1 ELSE 0) + 2 * PackBits(S, lo + 1, n - 1)

Word32(S, lo) == <<PackBits(S, lo, 16), PackBits(S, lo + 16, 16)>>

LockWords(S) ==
    [i \in 1 .. (IFLASH_NB_OF_LOCK_BITS \div 32) |-> Word32(S, 32 * (i - 1))]

\* effect of command cmd with argument field farg, when it reports no error
CommandEffect(m, cmd, farg) ==
    CASE cmd = SEFC_FCMD_WP ->
            [m EXCEPT !.flash = [p \in (DOMAIN m.flash) \cup {farg} |->
                                    IF p = farg THEN m.latch ELSE m.flash[p]]]
      [] cmd = SEFC_FCMD_EA ->
            [m EXCEPT !.flash = <<>>,
                      !.fill = [m.fill EXCEPT !.all = TRUE]]
      [] cmd = SEFC_FCMD_ES ->
            LET s == farg \div PagesPerSector
                keep == {p \in DOMAIN m.flash : p \div PagesPerSector # s}
            IN  [m EXCEPT !.flash = [p \in keep |-> m.flash[p]],
                          !.fill = [m.fill EXCEPT !.sectors = @ \cup {s}]]
      [] cmd = SEFC_FCMD_SLB ->
            [m EXCEPT !.lockBits = @ \cup {farg \div PagesPerRegion}]
      [] cmd = SEFC_FCMD_CLB ->
            [m EXCEPT !.lockBits = @ \ {farg \div PagesPerRegion}]
      [] cmd = SEFC_FCMD_GLB ->
            [m EXCEPT !.frr = LockWords(m.lockBits)]
      [] cmd = SEFC_FCMD_SGPB ->
            [m EXCEPT !.gpnvm = @ \cup {farg}]
      [] cmd = SEFC_FCMD_CGPB ->
            [m EXCEPT !.gpnvm = @ \ {farg}]
      [] cmd = SEFC_FCMD_GGPB ->
            [m EXCEPT !.frr = <<Word32(m.gpnvm, 0)>>]
      [] cmd = SEFC_FCMD_STUI ->
            [m EXCEPT !.uid = TRUE]
      [] cmd = SEFC_FCMD_SPUI ->
            [m EXCEPT !.uid = FALSE]
      [] OTHER -> m

\* the controller takes a command word: it reports the k-th error of the
\* call and, when that is 0, carries the command out; the status it shows
\* once the command is over is FRDY plus the error flags, and the next
\* m.busy reads of the status register come before that
Controller(m, cmd, farg) ==
    LET k == m.ncmd + 1
        e == IF k \in DOMAIN m.errs THEN m.errs[k] ELSE 0
        m1 == IF e = 0 THEN CommandEffect(m, cmd, farg) ELSE m
    IN  [m1 EXCEPT !.ncmd = k, !.fsr = EEFC_FSR_FRDY + e, !.wait = m.busy]

\* a read of EEFC_FSR: 0 while the command is under way, then the status,
\* whose error flags the read clears
ReadFSR(m) ==
    IF m.wait > 0
    THEN [m |-> [m EXCEPT !.wait = @ - 1,
                          !.ev = Append(@, [k |-> "fsr", a |-> 0, v |-> 0])],
          v |-> 0]
    ELSE [m |-> [m EXCEPT !.fsr = EEFC_FSR_FRDY,
                          !.ev = Append(@, [k |-> "fsr", a |-> 0, v |-> m.fsr])],
          v |-> m.fsr]

\* word i of the 128-bit unique identifier of the device
UniqueIdWord(i) == <<4660 + i, 43981>>

\* a 32-bit CPU read at flash address a: the flash array, or the unique
\* identifier while the controller is in unique-identifier mode
ReadWord(m, a) ==
    IF m.uid THEN UniqueIdWord((a - IFLASH0_CNC_ADDR) \div 4)
    ELSE <<FlashByte(m, a) + 256 * FlashByte(m, a + 1),
           FlashByte(m, a + 2) + 256 * FlashByte(m, a + 3)>>

\* a 32-bit store of word w at write-window address a: four latch bytes
StoreWord(m, a, w) ==
    LET o == a.lo % IFLASH_PAGE_SIZE
    IN  [m EXCEPT !.latch = [i \in PageIdx |->
                                IF i >= o /\ i < o + 4 THEN ByteOf(w, i - o)
                                ELSE m.latch[i]],
                  !.ev = Append(@, [k |-> "store", a |-> a, v |-> w])]

\* ------------------------------------------------------------- efc.c
\* return sefc->EEFC_FRR: a read of the result register delivers the next
\* word of the result, 0 when there is none
ResultWord(m) == IF m.frr = <<>> THEN <<0, 0>> ELSE Head(m.frr)
ResultRest(m) == IF m.frr = <<>> THEN <<>> ELSE Tail(m.frr)
SEFC_GetResult(m) ==
    [m |-> [m EXCEPT !.frr = ResultRest(m),
                     !.ev = Append(@, [k |-> "frr", a |-> 0, v |-> ResultWord(m)])],
     v |-> ResultWord(m)]

\* variant: the page and offset are taken from the absolute address
TranslateAddress_NoBase(dwAddress) ==
    [sefc |-> "SEFC0",
     page |-> U16(dwAddress \div IFLASH_PAGE_SIZE),
     offset |-> U16(dwAddress % IFLASH_PAGE_SIZE)]

TranslateAddress(dwAddress) ==
    [sefc |-> "SEFC0",
     page |-> U16((dwAddress - IFLASH0_CNC_ADDR) \div IFLASH_PAGE_SIZE),
     offset |-> U16((dwAddress - IFLASH0_CNC_ADDR) % IFLASH_PAGE_SIZE)]

\* variant: only the lower bound is asserted
TranslateAsserts_LowerOnly(dwAddress) ==
    dwAddress >= IFLASH0_CNC_ADDR

TranslateAsserts(dwAddress) ==
    /\ dwAddress >= IFLASH0_CNC_ADDR
    /\ dwAddress <= IFLASH0_CNC_ADDR + IFLASH_SIZE

\* variant: the byte offset is left out of the sum
ComputeAddress_PageOnly(sefc, wPage, wOffset) ==
    IFLASH0_CNC_ADDR + wPage * IFLASH_PAGE_SIZE

ComputeAddress(sefc, wPage, wOffset) ==
    IFLASH0_CNC_ADDR + wPage * IFLASH_PAGE_SIZE + wOffset

ComputeAsserts(sefc, wPage, wOffset) ==
    /\ wPage <= IFLASH_NB_OF_PAGES
    /\ wOffset < IFLASH_PAGE_SIZE

\* EEFC_FCR_FKEY_PASSWD | EEFC_FCR_FARG(dwArgument) | EEFC_FCR_FCMD(dwCommand)
CommandWord(dwCommand, dwArgument) ==
    EEFC_FCR_FKEY_PASSWD + 256 * (dwArgument % 65536) + (dwCommand % 256)

\* the fields of command word w: FCMD, FARG and FKEY
WordCmd(w) == w % 256
WordArg(w) == (w \div 256) % 65536
WordKey(w) == w \div 16777216

\* sefc->EEFC_FCR = w: the command word goes to the controller
WriteFCR(m, w) ==
    Controller([m EXCEPT !.ev = Append(@, [k |-> "fcr", a |-> WordCmd(w), v |-> WordArg(w),
                                           key |-> WordKey(w)])],
               WordCmd(w), WordArg(w))

\* the ROM routine IAP_PerformCommand(bank, w): it hands the command word
\* to the controller of the bank and loops until the command is over
IAP_PerformCommand(m, bank, w) ==
    [Controller([m EXCEPT !.ev = Append(@, [k |-> "iap", a |-> WordCmd(w), v |-> WordArg(w),
                                            key |-> WordKey(w), bank |-> bank])],
                WordCmd(w), WordArg(w))
        EXCEPT !.wait = 0]

\* the command word w goes to the controller, through the ROM routine
\* (event "iap", bank 0 for SEFC0) or through EEFC_FCR (event "fcr")
WriteCommand(m, w) ==
    IF m.useIAP # 0 THEN IAP_PerformCommand(m, 0, w) ELSE WriteFCR(m, w)

\* do dwStatus = EEFC_FSR while the ready bit is clear: m.wait reads that
\* find it clear, then the read that ends the loop
WaitReady(m) ==
    ReadFSR([m EXCEPT !.wait = 0,
                      !.ev = @ \o [i \in 1 .. m.wait |-> [k |-> "fsr", a |-> 0, v |-> 0]]])

\* the status read r that SEFC_PerformCommand returns from: the IAP path
\* reads the status register once after the ROM routine, the direct path
\* polls it until the ready bit is set
LastStatus(m1) == IF m1.useIAP # 0 THEN ReadFSR(m1) ELSE WaitReady(m1)

\* return ( dwStatus & (EEFC_FSR_FLOCKE | EEFC_FSR_FCMDE | EEFC_FSR_FLERR) )
ReturnFlags(r) == [r.m EXCEPT !.dwError = ErrorFlags(r.v)]

\* variant: the status register is returned without masking the error flags
ReturnFlags_Unmasked(r) == [r.m EXCEPT !.dwError = r.v]

\* variant: the status register is returned without masking the error flags
SEFC_PerformCommand_Unmasked(m, dwCommand, dwArgument) ==
    ReturnFlags_Unmasked(LastStatus(WriteCommand(m, CommandWord(dwCommand, dwArgument))))

\* variant: the status register is read once, ready or not
SEFC_PerformCommand_NoWait(m, dwCommand, dwArgument) ==
    ReturnFlags(ReadFSR(WriteCommand(m, CommandWord(dwCommand, dwArgument))))

\* variant: the status is read ahead of the command, not after it
CommandAfter(r, w) == [WriteCommand(r.m, w) EXCEPT !.dwError = ErrorFlags(r.v)]
SEFC_PerformCommand_StatusFirst(m, dwCommand, dwArgument) ==
    CommandAfter(ReadFSR(m), CommandWord(dwCommand, dwArgument))

\* both paths return the error flags of the last status read
SEFC_PerformCommand(m, dwCommand, dwArgument) ==
    ReturnFlags(LastStatus(WriteCommand(m, CommandWord(dwCommand, dwArgument))))

\* ------------------------------------------------------------- flashd.c
\* memcpy(dst + d, src, n) on the page staging buffer; src[i] is source byte i
Memcpy(dst, d, n, src) ==
    Tabulated([i \in PageIdx |-> IF i >= d /\ i < d + n THEN src[i - d] ELSE dst[i]])

\* byte i of the caller's buffer number bseed
BufByte(bseed, i) == (bseed * 17 + i * 5 + (i \div 7)) % 256

\* variant: the page goes to the write window byte by byte
StorePage_Bytes(m, pageAddress) ==
    [m EXCEPT
       !.latch = [i \in PageIdx |-> m.buf[i]],
       !.ev = @ \o [x \in 1 .. IFLASH_PAGE_SIZE |->
                      [k |-> "store", a |-> WinAdd(pageAddress, x - 1), v |-> m.buf[x - 1]]]]

\* the word loop of FLASHD_Write: IFLASH_PAGE_SIZE / 4 stores of
\* _pdwPageBuffer[dwIdx] at pageAddress + 4 * dwIdx, in ascending order
StorePage(m, pageAddress) ==
    LET nw == IFLASH_PAGE_SIZE \div 4
        word == Tabulated([x \in 0 .. (nw - 1) |->
                    WordOf(m.buf[4 * x], m.buf[4 * x + 1], m.buf[4 * x + 2], m.buf[4 * x + 3])])
        o == pageAddress.lo % IFLASH_PAGE_SIZE
    IN  [m EXCEPT
           !.latch = [i \in PageIdx |->
                        IF i >= o THEN ByteOf(word[(i - o) \div 4], (i - o) % 4)
                        ELSE m.latch[i]],
           !.ev = @ \o [x \in 1 .. nw |->
                          [k |-> "store", a |-> WinAdd(pageAddress, 4 * (x - 1)), v |-> word[x - 1]]]]

\* variant: the bytes after the new data are not copied back from flash
StagePage_NoPost(m, pageAddress, offset, bseed, pos, writeSize) ==
    LET b1 == Memcpy(m.buf, 0, offset, [i \in 0 .. (offset - 1) |-> ReadByte(m, WinAdd(pageAddress, i))])
        b2 == Memcpy(b1, offset, writeSize, [i \in 0 .. (writeSize - 1) |-> BufByte(bseed, pos + i)])
    IN  [m EXCEPT !.buf = b2]

\* variant: the bytes ahead of the new data are not copied back from flash
StagePage_NoPre(m, pageAddress, offset, bseed, pos, writeSize) ==
    LET padding == U16(IFLASH_PAGE_SIZE - offset - writeSize)
        b2 == Memcpy(m.buf, offset, writeSize, [i \in 0 .. (writeSize - 1) |-> BufByte(bseed, pos + i)])
        b3 == Memcpy(b2, offset + writeSize, padding,
                     [i \in 0 .. (padding - 1) |->
                        ReadByte(m, WinAdd(pageAddress, offset + writeSize + i))])
    IN  [m EXCEPT !.buf = b3]

\* the three memcpy calls that stage one page
StagePage(m, pageAddress, offset, bseed, pos, writeSize) ==
    LET padding == U16(IFLASH_PAGE_SIZE - offset - writeSize)
        b1 == Memcpy(m.buf, 0, offset, [i \in 0 .. (offset - 1) |-> ReadByte(m, WinAdd(pageAddress, i))])
        b2 == Memcpy(b1, offset, writeSize, [i \in 0 .. (writeSize - 1) |-> BufByte(bseed, pos + i)])
        b3 == Memcpy(b2, offset + writeSize, padding,
                     [i \in 0 .. (padding - 1) |->
                        ReadByte(m, WinAdd(pageAddress, offset + writeSize + i))])
    IN  [m EXCEPT !.buf = b3]

\* variant: pvBuffer is not advanced after a page
RECURSIVE WriteLoop_NoAdvance(_, _, _, _, _, _)
WriteLoop_NoAdvance(m, page, offset, bseed, pos, dwSize) ==
    IF dwSize = 0 THEN [m EXCEPT !.ret = 0]
    ELSE
        LET writeSize == Min(IFLASH_PAGE_SIZE - offset, dwSize)
            pageAddress == OrWriteWindow(ComputeAddress("SEFC0", page, 0))
            m1 == StagePage(m, pageAddress, offset, bseed, pos, writeSize)
            m2 == StorePage(m1, pageAddress)
            m3 == SEFC_PerformCommand(m2, SEFC_FCMD_WP, page)
        IN  IF m3.dwError # 0 THEN [m3 EXCEPT !.ret = m3.dwError]
            ELSE WriteLoop_NoAdvance(m3, U16(page + 1), 0, bseed, pos, dwSize - writeSize)

\* the while loop of FLASHD_Write; pos is how far pvBuffer has advanced
RECURSIVE WriteLoop(_, _, _, _, _, _)
WriteLoop(m, page, offset, bseed, pos, dwSize) ==
    IF dwSize = 0 THEN [m EXCEPT !.ret = 0]
    ELSE
        LET writeSize == Min(IFLASH_PAGE_SIZE - offset, dwSize)
            pageAddress == OrWriteWindow(ComputeAddress("SEFC0", page, 0))
            m1 == StagePage(m, pageAddress, offset, bseed, pos, writeSize)
            m2 == StorePage(m1, pageAddress)
            m3 == SEFC_PerformCommand(m2, SEFC_FCMD_WP, page)
        IN  IF m3.dwError # 0 THEN [m3 EXCEPT !.ret = m3.dwError]
            ELSE WriteLoop(m3, U16(page + 1), 0, bseed, pos + writeSize,
                           dwSize - writeSize)

WriteAsserts(dwAddress, dwSize) ==
    /\ dwAddress >= IFLASH0_CNC_ADDR
    /\ dwAddress + dwSize <= IFLASH0_CNC_ADDR + IFLASH_SIZE
    /\ TranslateAsserts(dwAddress)

FLASHD_Write_(m, dwAddress, bseed, dwSize) ==
    LET t == TranslateAddress(dwAddress)
    IN  WriteLoop(m, t.page, t.offset, bseed, 0, dwSize)

\* FLASHD_Write on the whole range of its uint32_t arguments: dwAddress and
\* dwSize are 32-bit values <<low half, high half>>, and sums wrap at 2^32
W32(n) == <<n % 65536, n \div 65536>>
Int32(a) == a[1] + 65536 * a[2]
Add32(a, b) == <<(a[1] + b[1]) % 65536, (a[2] + b[2] + ((a[1] + b[1]) \div 65536)) % 65536>>
Le32(a, b) == a[2] < b[2] \/ (a[2] = b[2] /\ a[1] <= b[1])
\* a - n for 0 <= n <= a, n below 65536
Sub32(a, n) ==
    IF a[1] >= n THEN <<a[1] - n, a[2]>> ELSE <<a[1] + 65536 - n, a[2] - 1>>
\* min(n, a) for n below 65536
Min32(n, a) == IF a[2] = 0 /\ a[1] < n THEN a[1] ELSE n

\* the two asserts of FLASHD_Write on dwAddress and dwSize, then the two of
\* SEFC_TranslateAddress
WriteAsserts32(dwAddress, dwSize) ==
    /\ Le32(W32(IFLASH0_CNC_ADDR), dwAddress)
    /\ Le32(Add32(dwAddress, dwSize), W32(IFLASH0_CNC_ADDR + IFLASH_SIZE))
    /\ Le32(W32(IFLASH0_CNC_ADDR), dwAddress)
    /\ Le32(dwAddress, W32(IFLASH0_CNC_ADDR + IFLASH_SIZE))

\* the while loop of FLASHD_Write with dwSize on 32 bits; the assert of
\* SEFC_ComputeAddress on the page stops the call where it fails
RECURSIVE WriteLoop32(_, _, _, _, _, _)
WriteLoop32(m, page, offset, bseed, pos, dwSize) ==
    IF dwSize = <<0, 0>> THEN [m EXCEPT !.ret = 0]
    ELSE IF ~ComputeAsserts("SEFC0", page, 0) THEN [m EXCEPT !.asserted = TRUE]
    ELSE
        LET writeSize == Min32(IFLASH_PAGE_SIZE - offset, dwSize)
            pageAddress == OrWriteWindow(ComputeAddress("SEFC0", page, 0))
            m1 == StagePage(m, pageAddress, offset, bseed, pos, writeSize)
            m2 == StorePage(m1, pageAddress)
            m3 == SEFC_PerformCommand(m2, SEFC_FCMD_WP, page)
        IN  IF m3.dwError # 0 THEN [m3 EXCEPT !.ret = m3.dwError]
            ELSE WriteLoop32(m3, U16(page + 1), 0, bseed, pos + writeSize,
                             Sub32(dwSize, writeSize))

FLASHD_Write32(m, dwAddress, bseed, dwSize) ==
    LET t == TranslateAddress(Int32(dwAddress))
    IN  WriteLoop32(m, t.page, t.offset, bseed, 0, dwSize)

\* ComputeLockRange: the pair <<actual start, actual end>>
\* variant: the end page is moved to the next region boundary even when it
\* already lies on one
ComputeLockRange_AlwaysRound(dwStart, dwEnd) ==
    LET wStartPage == TranslateAddress(dwStart).page
        wEndPage == TranslateAddress(dwEnd).page
        wNumPagesInRegion == U16(IFLASH_LOCK_REGION_SIZE \div IFLASH_PAGE_SIZE)
        wActualStartPage == U16(wStartPage - (wStartPage % wNumPagesInRegion))
        wActualEndPage == U16(wEndPage + wNumPagesInRegion - (wEndPage % wNumPagesInRegion))
    IN  <<ComputeAddress("SEFC0", wActualStartPage, 0),
          ComputeAddress("SEFC0", wActualEndPage, 0)>>

ComputeLockRange(dwStart, dwEnd) ==
    LET wStartPage == TranslateAddress(dwStart).page
        wEndPage == TranslateAddress(dwEnd).page
        wNumPagesInRegion == U16(IFLASH_LOCK_REGION_SIZE \div IFLASH_PAGE_SIZE)
        wActualStartPage == U16(wStartPage - (wStartPage % wNumPagesInRegion))
        wActualEndPage ==
            IF (wEndPage % wNumPagesInRegion) # 0
            THEN U16(wEndPage + wNumPagesInRegion - (wEndPage % wNumPagesInRegion))
            ELSE wEndPage
    IN  <<ComputeAddress("SEFC0", wActualStartPage, 0),
          ComputeAddress("SEFC0", wActualEndPage, 0)>>

\* the assertions ComputeLockRange runs into
LockRangeAsserts(dwStart, dwEnd) ==
    /\ TranslateAsserts(dwStart)
    /\ TranslateAsserts(dwEnd)
    /\ LET wEndPage == TranslateAddress(dwEnd).page
           n == IFLASH_LOCK_REGION_SIZE \div IFLASH_PAGE_SIZE
       IN  ComputeAsserts("SEFC0", IF wEndPage % n # 0 THEN U16(wEndPage + n - (wEndPage % n))
                                   ELSE wEndPage, 0)

\* variant: the region after the failing one is processed before the return
RECURSIVE LockLoop_OneMore(_, _, _, _)
LockLoop_OneMore(m, dwCommand, startPage, endPage) ==
    IF ~(startPage < endPage) THEN [m EXCEPT !.ret = 0]
    ELSE
        LET m1 == SEFC_PerformCommand(m, dwCommand, startPage)
            numPagesInRegion == U16(IFLASH_LOCK_REGION_SIZE \div IFLASH_PAGE_SIZE)
        IN  IF m1.dwError # 0
            THEN [SEFC_PerformCommand(m1, dwCommand, U16(startPage + numPagesInRegion))
                     EXCEPT !.ret = m1.dwError]
            ELSE LockLoop_OneMore(m1, dwCommand, U16(startPage + numPagesInRegion), endPage)

\* the while loop of FLASHD_Lock (dwCommand SLB) and FLASHD_Unlock (CLB)
RECURSIVE LockLoop(_, _, _, _)
LockLoop(m, dwCommand, startPage, endPage) ==
    IF ~(startPage < endPage) THEN [m EXCEPT !.ret = 0]
    ELSE
        LET m1 == SEFC_PerformCommand(m, dwCommand, startPage)
            numPagesInRegion == U16(IFLASH_LOCK_REGION_SIZE \div IFLASH_PAGE_SIZE)
        IN  IF m1.dwError # 0 THEN [m1 EXCEPT !.ret = m1.dwError]
            ELSE LockLoop(m1, dwCommand, U16(startPage + numPagesInRegion), endPage)

\* variant: the loop starts at the page of start, not of the aligned start
LockOrUnlock_FromStart(m, dwCommand, start, end, hasStart, hasEnd) ==
    LET actual == ComputeLockRange(start, end)
        m1 == [m EXCEPT !.out = <<IF hasStart THEN actual[1] ELSE -1,
                                  IF hasEnd THEN actual[2] ELSE -1>>]
        startPage == TranslateAddress(start).page
        endPage == TranslateAddress(actual[2]).page
    IN  LockLoop(m1, dwCommand, startPage, endPage)

\* FLASHD_Lock and FLASHD_Unlock differ in the command only; hasStart and
\* hasEnd tell whether pActualStart and pActualEnd are non-null, and out
\* holds what was stored through them (-1 where nothing was)
LockOrUnlock(m, dwCommand, start, end, hasStart, hasEnd) ==
    LET actual == ComputeLockRange(start, end)
        m1 == [m EXCEPT !.out = <<IF hasStart THEN actual[1] ELSE -1,
                                  IF hasEnd THEN actual[2] ELSE -1>>]
        startPage == TranslateAddress(actual[1]).page
        endPage == TranslateAddress(actual[2]).page
    IN  LockLoop(m1, dwCommand, startPage, endPage)

FLASHD_Lock_(m, start, end, hasStart, hasEnd) ==
    LockOrUnlock(m, SEFC_FCMD_SLB, start, end, hasStart, hasEnd)

FLASHD_Unlock_(m, start, end, hasStart, hasEnd) ==
    LockOrUnlock(m, SEFC_FCMD_CLB, start, end, hasStart, hasEnd)

\* the for loop of FLASHD_IsLocked: n reads of the result register
RECURSIVE ReadStatus(_, _, _)
ReadStatus(m, n, status) ==
    IF n = 0 THEN [m |-> m, status |-> status]
    ELSE LET r == SEFC_GetResult(m)
         IN  ReadStatus(r.m, n - 1, Append(status, r.v))

\* the counting loop of FLASHD_IsLocked; startRegion is a uint8_t.
\* (status[i] & (1 << j)) is bit j of word i (1 << 31 taken as the sign bit)
RECURSIVE CountLocked(_, _, _, _)
CountLocked(status, startRegion, endRegion, numLockedRegions) ==
    IF ~(startRegion < endRegion) THEN numLockedRegions
    ELSE
        LET i == startRegion \div 32
            j == startRegion % 32
        IN  CountLocked(status, U8(startRegion + 1), endRegion,
                        IF Bit(status[i + 1], j) # 0 THEN numLockedRegions + 1
                        ELSE numLockedRegions)

IsLockedAsserts(start, end) ==
    /\ end >= start
    /\ start >= IFLASH0_CNC_ADDR /\ end <= IFLASH0_CNC_ADDR + IFLASH_SIZE
    /\ TranslateAsserts(start) /\ TranslateAsserts(end)

\* variant: the result register is read ahead of the command
FLASHD_IsLocked_ReadFirst(m, start, end) ==
    LET startPage == TranslateAddress(start).page
        endPage == TranslateAddress(end).page
        numPagesInRegion == IFLASH_LOCK_REGION_SIZE \div IFLASH_PAGE_SIZE
        startRegion == U8(startPage \div numPagesInRegion)
        endRegion0 == U8(endPage \div numPagesInRegion)
        endRegion == IF (endPage % numPagesInRegion) # 0 THEN U8(endRegion0 + 1)
                     ELSE endRegion0
        r == ReadStatus(m, IFLASH_NB_OF_LOCK_BITS \div 32, <<>>)
        m1 == SEFC_PerformCommand(r.m, SEFC_FCMD_GLB, 0)
    IN  [m1 EXCEPT !.ret = CountLocked(r.status, startRegion, endRegion, 0)]

FLASHD_IsLocked_(m, start, end) ==
    LET startPage == TranslateAddress(start).page
        endPage == TranslateAddress(end).page
        numPagesInRegion == IFLASH_LOCK_REGION_SIZE \div IFLASH_PAGE_SIZE
        startRegion == U8(startPage \div numPagesInRegion)
        endRegion0 == U8(endPage \div numPagesInRegion)
        endRegion == IF (endPage % numPagesInRegion) # 0 THEN U8(endRegion0 + 1)
                     ELSE endRegion0
        m1 == SEFC_PerformCommand(m, SEFC_FCMD_GLB, 0)
        r == ReadStatus(m1, IFLASH_NB_OF_LOCK_BITS \div 32, <<>>)
    IN  [r.m EXCEPT !.ret = CountLocked(r.status, startRegion, endRegion, 0)]

\* FLASHD_IsGPNVMSet: the machine after the query, its ret the answer read
\* from the result r of SEFC_GetResult
GPNVMAnswer(r, usGPVM) == [r.m EXCEPT !.ret = IF Bit(r.v, usGPVM) # 0 THEN 1 ELSE 0]

FLASHD_IsGPNVMSet_(m, usGPVM) ==
    GPNVMAnswer(SEFC_GetResult(SEFC_PerformCommand(m, SEFC_FCMD_GGPB, 0)), usGPVM)

\* variant: the index GPNVM_NUM_MAX passes the assertion
GPNVMAsserts_OffByOne(usGPVM) == usGPVM <= GPNVM_NUM_MAX

GPNVMAsserts(usGPVM) == usGPVM < GPNVM_NUM_MAX

\* return SEFC_PerformCommand(...): the machine m1 after the command
ReturnError(m1) == [m1 EXCEPT !.ret = m1.dwError]

\* the branch of FLASHD_SetGPNVM (dwCommand SGPB, on answer 0) and of
\* FLASHD_ClearGPNVM (CGPB, on answer 1) after the query left machine q
CommandUnless(q, answer, dwCommand, usGPVM) ==
    IF q.ret # answer THEN ReturnError(SEFC_PerformCommand(q, dwCommand, usGPVM))
    ELSE [q EXCEPT !.ret = 0]

\* variant: the set command is issued when the bit is already set
FLASHD_SetGPNVM_Inverted(m, usGPVM) ==
    CommandUnless(FLASHD_IsGPNVMSet_(m, usGPVM), 0, SEFC_FCMD_SGPB, usGPVM)

FLASHD_SetGPNVM_(m, usGPVM) ==
    CommandUnless(FLASHD_IsGPNVMSet_(m, usGPVM), 1, SEFC_FCMD_SGPB, usGPVM)

\* variant: the clear command is issued whatever the query answered
FLASHD_ClearGPNVM_Always(m, usGPVM) ==
    CommandUnless(FLASHD_IsGPNVMSet_(m, usGPVM), 2, SEFC_FCMD_CGPB, usGPVM)

FLASHD_ClearGPNVM_(m, usGPVM) ==
    CommandUnless(FLASHD_IsGPNVMSet_(m, usGPVM), 0, SEFC_FCMD_CGPB, usGPVM)

\* FLASHD_ReadUniqueID: the two commands go to EEFC_FCR directly, whatever
\* _dwUseIAP is; pdwUniqueID is 0 for a null pointer
\* pdwUniqueID[0 .. 3] = 0
ZeroID(m) == [m EXCEPT !.out = <<(<<0, 0>>), (<<0, 0>>), (<<0, 0>>), (<<0, 0>>)>>]

\* pdwUniqueID[i] = *(uint32_t *)(IFLASH0_CNC_ADDR + 4 * i)
StoreID(m, i, a, w) ==
    [m EXCEPT !.out[i + 1] = w, !.ev = Append(@, [k |-> "read", a |-> a, v |-> w])]
ReadID(m, i) == StoreID(m, i, IFLASH0_CNC_ADDR + 4 * i, ReadWord(m, IFLASH0_CNC_ADDR + 4 * i))

ReadFourWords(m) == ReadID(ReadID(ReadID(ReadID(m, 0), 1), 2), 3)

ReturnZero(r) == [r.m EXCEPT !.ret = 0]

\* variant: one status read after the stop command, no loop
FLASHD_ReadUniqueID_OneRead(m, pdwUniqueID) ==
    IF pdwUniqueID = 0 THEN [m EXCEPT !.ret = 1]
    ELSE ReturnZero(ReadFSR(WriteFCR(
             ReadFourWords(WriteFCR(ZeroID(m), CommandWord(SEFC_FCMD_STUI, 0))),
             CommandWord(SEFC_FCMD_SPUI, 0))))

FLASHD_ReadUniqueID_(m, pdwUniqueID) ==
    IF pdwUniqueID = 0 THEN [m EXCEPT !.ret = 1]
    ELSE ReturnZero(WaitReady(WriteFCR(
             ReadFourWords(WriteFCR(ZeroID(m), CommandWord(SEFC_FCMD_STUI, 0))),
             CommandWord(SEFC_FCMD_SPUI, 0))))

\* FLASHD_Erase and FLASHD_EraseSector: one command each
EraseAsserts(dwAddress) ==
    /\ (dwAddress >= IFLASH0_CNC_ADDR) \/ (dwAddress <= IFLASH0_CNC_ADDR + IFLASH_SIZE)
    /\ TranslateAsserts(dwAddress)

FLASHD_Erase_(m, dwAddress) ==
    ReturnError(SEFC_PerformCommand(m, SEFC_FCMD_EA, 0))

\* variant: the argument is the number of the sector, not of the page
FLASHD_EraseSector_SectorNumber(m, dwAddress) ==
    ReturnError(SEFC_PerformCommand(m, SEFC_FCMD_ES,
                                    TranslateAddress(dwAddress).page \div PagesPerSector))

FLASHD_EraseSector_(m, dwAddress) ==
    ReturnError(SEFC_PerformCommand(m, SEFC_FCMD_ES, TranslateAddress(dwAddress).page))

\* ------------------------------------------------------------- FlashPrg.c
GPNVM_BOOT_MODE_BIT0 == 5
GPNVM_BOOT_MODE_BIT1 == 6

\* adr & 0x01FFFFFF
MaskAddr(adr) == adr % 33554432

\* if (ret != 0) return (1); return (0);
ReturnStatus(m) == [m EXCEPT !.ret = IF m.ret # 0 THEN 1 ELSE 0]

\* Init: ret is assigned by both FLASHD_SetGPNVM calls and tested after the
\* second; out holds what the two calls returned. The caller stores adr in
\* dev_base_adr when the result is 0.
InitReturn(ret1, m2) ==
    [m2 EXCEPT !.ret = IF m2.ret # 0 THEN 1 ELSE 0, !.out = <<ret1, m2.ret>>]

InitSecond(m1) == InitReturn(m1.ret, FLASHD_SetGPNVM_(m1, GPNVM_BOOT_MODE_BIT1))

\* FLASHD_Initialize(dwMCk, dwUseIAP): _dwUseIAP = dwUseIAP
FLASHD_Initialize_(m, useIAP) == [m EXCEPT !.useIAP = useIAP]

\* variant: Init selects the IAP interface
Init_UseIAP(m, adr) ==
    InitSecond(FLASHD_SetGPNVM_(FLASHD_Initialize_(m, 1), GPNVM_BOOT_MODE_BIT0))

\* FLASHD_Initialize(0, 0), then the two boot-mode fuses
Init_(m, adr) ==
    InitSecond(FLASHD_SetGPNVM_(FLASHD_Initialize_(m, 0), GPNVM_BOOT_MODE_BIT0))

UnInit_(m) == [m EXCEPT !.ret = 0]

EraseChip_(m, base) == FLASHD_Erase_(m, base)

\* the second half of EraseSector, after FLASHD_Unlock left machine m1
EraseUnlocked(m1, adr) ==
    IF m1.ret # 0 THEN [m1 EXCEPT !.ret = 1]
    ELSE ReturnStatus(FLASHD_EraseSector_(m1, adr))

\* variant: the result of FLASHD_Unlock is not looked at
EraseSector_NoCheck(m, adr) ==
    ReturnStatus(FLASHD_EraseSector_(
        FLASHD_Unlock_(m, MaskAddr(adr), MaskAddr(adr) + 131072 - 1, FALSE, FALSE), adr))

EraseSector_(m, adr) ==
    EraseUnlocked(FLASHD_Unlock_(m, MaskAddr(adr), MaskAddr(adr) + 131072 - 1, FALSE, FALSE),
                  adr)

EraseSectorAsserts(adr) ==
    /\ LockRangeAsserts(MaskAddr(adr), MaskAddr(adr) + 131072 - 1)
    /\ EraseAsserts(adr)

ProgramPage_(m, adr, sz, bseed) ==
    ReturnStatus(FLASHD_Write_(m, MaskAddr(adr), bseed, sz))

\* memcmp(adr, buf, sz) on the flash of machine m: the difference of the
\* first pair of bytes that differ, 0 when there is none
Mismatches(m, adr, buf, sz) == {i \in 0 .. (sz - 1) : FlashByte(m, adr + i) # buf[i]}
FirstOf(S) == CHOOSE i \in S : \A j \in S : i <= j
Memcmp(m, adr, buf, sz) ==
    IF Mismatches(m, adr, buf, sz) = {} THEN 0
    ELSE FlashByte(m, adr + FirstOf(Mismatches(m, adr, buf, sz)))
            - buf[FirstOf(Mismatches(m, adr, buf, sz))]

\* variant: the address of the first byte that differs is returned
Verify_FailedAddress(m, adr, sz, buf) ==
    [m EXCEPT !.ret = IF Memcmp(m, adr, buf, sz) = 0 THEN adr + sz
                      ELSE adr + FirstOf(Mismatches(m, adr, buf, sz))]

Verify_(m, adr, sz, buf) ==
    [m EXCEPT !.ret = IF Memcmp(m, adr, buf, sz) = 0 THEN adr + sz ELSE adr]

\* the exit test of the polling loop of SEFC_PerformCommand:
\* (dwStatus & EEFC_FSR_FRDY) == EEFC_FSR_FRDY
\* variant: the command-error bit is tested in place of the ready bit
ReadyBitSet_WrongBit(dwStatus) == (dwStatus \div EEFC_FSR_FCMDE) % 2 = 1

ReadyBitSet(dwStatus) == (dwStatus \div EEFC_FSR_FRDY) % 2 = 1

\* the driver function op applied to args on machine m
RunOp(op, args, m) ==
    CASE op = "FLASHD_Erase" -> FLASHD_Erase_(m, args[1])
      [] op = "FLASHD_EraseSector" -> FLASHD_EraseSector_(m, args[1])
      [] op = "FLASHD_Write" -> FLASHD_Write_(m, args[1], args[2], args[3])
      [] op = "FLASHD_Lock" -> FLASHD_Lock_(m, args[1], args[2], FALSE, FALSE)
      [] op = "FLASHD_Unlock" -> FLASHD_Unlock_(m, args[1], args[2], FALSE, FALSE)
      [] op = "FLASHD_IsLocked" -> FLASHD_IsLocked_(m, args[1], args[2])
      [] op = "FLASHD_SetGPNVM" -> FLASHD_SetGPNVM_(m, args[1])
      [] op = "FLASHD_ClearGPNVM" -> FLASHD_ClearGPNVM_(m, args[1])

\* the preconditions (asserts) of the driver function op on args
OpAsserts(op, args) ==
    CASE op \in {"FLASHD_Erase", "FLASHD_EraseSector"} -> EraseAsserts(args[1])
      [] op = "FLASHD_Write" -> WriteAsserts(args[1], args[3])
      [] op \in {"FLASHD_Lock", "FLASHD_Unlock"} -> LockRangeAsserts(args[1], args[2])
      [] op = "FLASHD_IsLocked" -> IsLockedAsserts(args[1], args[2])
      [] op \in {"FLASHD_SetGPNVM", "FLASHD_ClearGPNVM"} -> GPNVMAsserts(args[1])

\* ------------------------------------------------------------- inputs
\* the error flags injected at command k: a command error at odd k, a lock
\* error together with a flash error at even k
ErrCode(k) == IF k % 2 = 1 THEN EEFC_FSR_FCMDE ELSE EEFC_FSR_FLOCKE + EEFC_FSR_FLERR

\* no error, or one command of the call (the k-th) reporting error flags
ErrSeqs ==
    {<<>>} \cup {[i \in 1 .. k |-> IF i = k THEN ErrCode(k) ELSE 0] : k \in 1 .. MaxErrPos}

\* no error, or the k-th command of the call reporting flags f
ErrSeqsAt(K, F) ==
    {<<>>} \cup {[i \in 1 .. k |-> IF i = k THEN f ELSE 0] : k \in K, f \in F}

\* every combination of the three error flags, and two of them
ErrorFlagSets == {2 * c : c \in 1 .. 7}
SomeErrorFlags == {EEFC_FSR_FCMDE, EEFC_FSR_FLOCKE + EEFC_FSR_FLERR}

\* the sector start addresses of FlashDevice's sector table
SectorAddrs ==
    {IFLASH0_CNC_ADDR + k * IFLASH_SECTOR_SIZE : k \in 0 .. ((IFLASH_SIZE \div IFLASH_SECTOR_SIZE) - 1)}

WriteSizes ==
    {0, 1, IFLASH_PAGE_SIZE - 100, 600} \cup {n * IFLASH_PAGE_SIZE : n \in 1 .. MaxPages}

WriteAddrs ==
    {IFLASH0_CNC_ADDR + p * IFLASH_PAGE_SIZE + o :
        p \in {0, IFLASH_NB_OF_PAGES - MaxPages - 1}, o \in {0, 100, IFLASH_PAGE_SIZE - 1}}

BufSeeds == {1, 2}

\* byte ranges <<start, end>> for the lock operations, as offsets into the
\* flash: empty, inside one page, ending inside the first page of a region,
\* spanning regions, reaching the last region and the end of the flash, and
\* the whole last sector
RangeSamples ==
    LET R == IFLASH_LOCK_REGION_SIZE
        P == IFLASH_PAGE_SIZE
        Z == IFLASH_SIZE
    IN  {<<0, 0>>, <<0, 5>>, <<5, R>>, <<0, R + 5>>, <<P, R + P>>, <<R + 5, R + 5>>,
         <<R, 3 * R>>, <<P + 88, P + 88>>, <<Z - 3 * R, Z - R>>, <<Z - R, Z - 1>>,
         <<Z - R + 100, Z - R + 200>>, <<Z - 2 * R + 5, Z>>,
         <<Z - IFLASH_SECTOR_SIZE, Z>>}

Ranges == {<<IFLASH0_CNC_ADDR + r[1], IFLASH0_CNC_ADDR + r[2]>> : r \in RangeSamples}

\* the non-null / null choices for <<pActualStart, pActualEnd>>
OutChoices == {<<TRUE, TRUE>>, <<FALSE, FALSE>>}

LockStates ==
    LET N == IFLASH_NB_OF_LOCK_BITS
    IN  {{}, 0 .. (N - 1), {0, N - 1}, {1, N - 2}, {0, 1, 2, N - 3, N - 2}}

FuseStates == (SUBSET {0, 1, 5, 6, GPNVM_NUM_MAX - 1}) \cup {0 .. (GPNVM_NUM_MAX - 1)}

SamplePages ==
    {0, 1, 2, 15, 16, 17, 255, 256, 2047, 2048, IFLASH_NB_OF_PAGES - 2, IFLASH_NB_OF_PAGES - 1}
SampleOffsets == {0, 1, 2, 3, 4, 100, 255, 256, IFLASH_PAGE_SIZE - 1}
AddrSamples ==
    {IFLASH0_CNC_ADDR + p * IFLASH_PAGE_SIZE + o : p \in SamplePages, o \in SampleOffsets}
\* addresses below the flash and above its end
OutsideSamples ==
    {0, 4, IFLASH_PAGE_SIZE, IFLASH0_CNC_ADDR - IFLASH_PAGE_SIZE, IFLASH0_CNC_ADDR - 1,
     IFLASH0_CNC_ADDR + IFLASH_SIZE + 1, IFLASH0_CNC_ADDR + IFLASH_SIZE + IFLASH_PAGE_SIZE,
     2 * IFLASH0_CNC_ADDR, 2147483647}

\* ------------------------------------------------------------- actions
\* no call in progress
Idle == [pc |-> "idle", op |-> "none", args |-> <<>>, errs |-> <<>>, ready |-> FALSE,
         e |-> 0, responsive |-> TRUE, polls |-> 0, plan |-> <<>>]

Snapshot == [flash |-> flash, fill |-> fill, lockBits |-> lockBits, gpnvm |-> gpnvm,
             latch |-> latch]

\* the hardware and the driver statics after a handler ran on machine m
Commit(m) ==
    /\ flash' = m.flash
    /\ fill' = m.fill
    /\ latch' = m.latch
    /\ lockBits' = m.lockBits
    /\ gpnvm' = m.gpnvm
    /\ frr' = m.frr
    /\ pdwPageBuffer' = m.buf
    /\ pre' = Snapshot

FLASHD_Initialize ==
    \E useIAP \in {0, 1} :
        /\ task.pc = "idle"
        /\ dwUseIAP' = useIAP
        /\ call' = [op |-> "FLASHD_Initialize", args |-> <<0, useIAP>>, ret |-> 0,
                    ev |-> <<>>, out |-> <<>>, errs |-> <<>>, asserted |-> FALSE]
        /\ pre' = Snapshot
        /\ UNCHANGED <<flash, fill, latch, lockBits, gpnvm, frr, pdwPageBuffer, ncalls,
                       dev_base_adr, task, writers, initDone>>

FLASHD_Write ==
    \E dwAddress \in WriteAddrs, dwSize \in WriteSizes, bseed \in BufSeeds, errs \in ErrSeqs :
        /\ ncalls < MaxCalls
        /\ WriteAsserts(dwAddress, dwSize)
        /\ LET m == FLASHD_Write_(Machine(errs), dwAddress, bseed, dwSize)
           IN  /\ Commit(m)
               /\ call' = [op |-> "FLASHD_Write", args |-> <<dwAddress, bseed, dwSize>>,
                           ret |-> m.ret, ev |-> m.ev, out |-> m.out, errs |-> errs,
                           asserted |-> FALSE]
        /\ ncalls' = ncalls + 1
        /\ UNCHANGED <<dwUseIAP, dev_base_adr, task, writers, initDone>>

\* FLASHD_Write with arguments from the whole uint32_t range, near the end
\* of the flash: <<dwAddress, dwSize>> whose sum stays below 2^32, and
\* whose sum wraps
LastPage == IFLASH0_CNC_ADDR + IFLASH_SIZE - IFLASH_PAGE_SIZE
\* 2^32 - n as a 32-bit value, for 0 < n < 2^31
Neg32(n) == Add32(<<65535 - (n % 65536), 65535 - (n \div 65536)>>, <<1, 0>>)
WideWrites ==
    {<<W32(LastPage), W32(IFLASH_PAGE_SIZE)>>,
     <<W32(LastPage + 100), W32(IFLASH_PAGE_SIZE - 100)>>,
     <<W32(LastPage + 100), W32(IFLASH_PAGE_SIZE - 99)>>,
     <<W32(LastPage - 100), W32(IFLASH_PAGE_SIZE + 100)>>,
     <<W32(IFLASH0_CNC_ADDR), W32(1)>>,
     <<W32(IFLASH0_CNC_ADDR + IFLASH_SIZE), W32(0)>>,
     <<W32(IFLASH0_CNC_ADDR + IFLASH_SIZE), W32(1)>>,
     <<W32(IFLASH0_CNC_ADDR + IFLASH_SIZE), Neg32(IFLASH0_CNC_ADDR + IFLASH_SIZE)>>,
     <<W32(LastPage), Neg32(LastPage)>>,
     <<W32(LastPage + 100), Add32(Neg32(LastPage + 100), W32(IFLASH0_CNC_ADDR))>>,
     <<Neg32(256), W32(IFLASH_PAGE_SIZE)>>,
     <<W32(IFLASH0_CNC_ADDR - 4), W32(4)>>}

FLASHD_Write_Wide ==
    \E a \in WideWrites, bseed \in BufSeeds, errs \in ErrSeqs :
        /\ ncalls < MaxCalls
        /\ IF WriteAsserts32(a[1], a[2])
           THEN LET m == FLASHD_Write32(Machine(errs), a[1], bseed, a[2])
                IN  /\ Commit(m)
                    /\ call' = [op |-> "FLASHD_Write", args |-> <<a[1], bseed, a[2]>>,
                                ret |-> m.ret, ev |-> m.ev, out |-> m.out, errs |-> errs,
                                asserted |-> m.asserted]
           ELSE /\ call' = [op |-> "FLASHD_Write", args |-> <<a[1], bseed, a[2]>>,
                            ret |-> 0, ev |-> <<>>, out |-> <<>>, errs |-> <<>>,
                            asserted |-> TRUE]
                /\ pre' = Snapshot
                /\ UNCHANGED <<flash, fill, latch, lockBits, gpnvm, frr, pdwPageBuffer>>
        /\ ncalls' = ncalls + 1
        /\ UNCHANGED <<dwUseIAP, dev_base_adr, task, writers, initDone>>

\* a handler that leaves the driver statics alone ran on machine m
Ran(op, args, errs, m) ==
    /\ ncalls < MaxCalls
    /\ Commit(m)
    /\ call' = [op |-> op, args |-> args, ret |-> m.ret, ev |-> m.ev, out |-> m.out,
                errs |-> errs, asserted |-> FALSE]
    /\ ncalls' = ncalls + 1
    /\ UNCHANGED <<dwUseIAP, dev_base_adr, task, writers, initDone>>

\* a call stopped by a failed assert: nothing ran after it
Asserted(op, args) ==
    /\ ncalls < MaxCalls
    /\ call' = [op |-> op, args |-> args, ret |-> 0, ev |-> <<>>, out |-> <<>>,
                errs |-> <<>>, asserted |-> TRUE]
    /\ pre' = Snapshot
    /\ ncalls' = ncalls + 1
    /\ UNCHANGED <<flash, fill, latch, lockBits, gpnvm, frr, pdwPageBuffer, dwUseIAP,
                   dev_base_adr, task, writers, initDone>>

FLASHD_Lock ==
    \E r \in Ranges, o \in OutChoices, errs \in ErrSeqs :
        /\ LockRangeAsserts(r[1], r[2])
        /\ Ran("FLASHD_Lock", <<r[1], r[2], o[1], o[2]>>, errs, FLASHD_Lock_(Machine(errs), r[1], r[2], o[1], o[2]))

FLASHD_Unlock ==
    \E r \in Ranges, o \in OutChoices, errs \in ErrSeqs :
        /\ LockRangeAsserts(r[1], r[2])
        /\ Ran("FLASHD_Unlock", <<r[1], r[2], o[1], o[2]>>, errs, FLASHD_Unlock_(Machine(errs), r[1], r[2], o[1], o[2]))

FLASHD_IsLocked ==
    \E r \in Ranges, errs \in ErrSeqs :
        /\ IsLockedAsserts(r[1], r[2])
        /\ Ran("FLASHD_IsLocked", r, errs, FLASHD_IsLocked_(Machine(errs), r[1], r[2]))

\* the GPNVM bits of the device and indexes past them (usGPVM is a uint16_t)
FuseIndexes == 0 .. (GPNVM_NUM_MAX + 1) \cup {255, 65535}

FLASHD_IsGPNVMSet ==
    \E usGPVM \in FuseIndexes, errs \in ErrSeqs :
        IF GPNVMAsserts(usGPVM)
        THEN Ran("FLASHD_IsGPNVMSet", <<usGPVM>>, errs, FLASHD_IsGPNVMSet_(Machine(errs), usGPVM))
        ELSE Asserted("FLASHD_IsGPNVMSet", <<usGPVM>>)

FLASHD_SetGPNVM ==
    \E usGPVM \in FuseIndexes, errs \in ErrSeqs :
        IF GPNVMAsserts(usGPVM)
        THEN Ran("FLASHD_SetGPNVM", <<usGPVM>>, errs, FLASHD_SetGPNVM_(Machine(errs), usGPVM))
        ELSE Asserted("FLASHD_SetGPNVM", <<usGPVM>>)

FLASHD_ClearGPNVM ==
    \E usGPVM \in FuseIndexes, errs \in ErrSeqs :
        IF GPNVMAsserts(usGPVM)
        THEN Ran("FLASHD_ClearGPNVM", <<usGPVM>>, errs, FLASHD_ClearGPNVM_(Machine(errs), usGPVM))
        ELSE Asserted("FLASHD_ClearGPNVM", <<usGPVM>>)

\* the adapter functions of FlashPrg.c; Init may be called before the
\* other functions only
FlashPrg_Init ==
    \E adr \in {IFLASH0_CNC_ADDR}, errs \in ErrSeqsAt(1 .. 4, SomeErrorFlags) :
        LET m == Init_(Machine(errs), adr)
        IN  /\ ncalls = 0
            /\ Commit(m)
            /\ dwUseIAP' = m.useIAP
            /\ initDone' = TRUE
            /\ dev_base_adr' = IF m.ret = 0 THEN adr ELSE dev_base_adr
            /\ call' = [op |-> "Init", args |-> <<adr>>, ret |-> m.ret, ev |-> m.ev,
                        out |-> m.out, errs |-> errs, asserted |-> FALSE]
            /\ UNCHANGED <<ncalls, task, writers>>

UnInit ==
    \E fnc \in 1 .. 3 :
        /\ dev_base_adr \in {0, IFLASH0_CNC_ADDR}
        /\ Ran("UnInit", <<fnc>>, <<>>, UnInit_(Machine(<<>>)))

EraseChip ==
    \E errs \in ErrSeqsAt({1}, ErrorFlagSets) :
        IF EraseAsserts(dev_base_adr)
        THEN Ran("EraseChip", <<>>, errs, EraseChip_(Machine(errs), dev_base_adr))
        ELSE Asserted("EraseChip", <<>>)

EraseSector ==
    \E adr \in SectorAddrs, errs \in ErrSeqsAt({1, 16, 17}, SomeErrorFlags) :
        /\ EraseSectorAsserts(adr)
        /\ Ran("EraseSector", <<adr>>, errs, EraseSector_(Machine(errs), adr))

ProgramPage ==
    \E adr \in {IFLASH0_CNC_ADDR, IFLASH0_CNC_ADDR + IFLASH_SIZE - IFLASH_PAGE_SIZE},
       bseed \in {1}, errs \in ErrSeqsAt({1}, SomeErrorFlags) :
        /\ WriteAsserts(MaskAddr(adr), IFLASH_PAGE_SIZE)
        /\ Ran("ProgramPage", <<adr, IFLASH_PAGE_SIZE, bseed>>, errs,
               ProgramPage_(Machine(errs), adr, IFLASH_PAGE_SIZE, bseed))

\* Verify on sz bytes that equal the flash at adr, but for the byte at
\* position diff when diff is one of 0 .. sz - 1
VerifySizes == {0, 1, 4, IFLASH_PAGE_SIZE}
VerifyBuf(adr, sz, diff) ==
    [i \in 0 .. (sz - 1) |->
        IF i = diff THEN (ByteIn(flash, fill, adr + i) + 1) % 256
        ELSE ByteIn(flash, fill, adr + i)]

Verify ==
    \E adr \in {IFLASH0_CNC_ADDR, IFLASH0_CNC_ADDR + 100,
                IFLASH0_CNC_ADDR + IFLASH_SIZE - IFLASH_PAGE_SIZE},
       sz \in VerifySizes, diff \in {-1, 0, 2, 3, IFLASH_PAGE_SIZE - 1} :
        /\ diff < sz
        /\ Ran("Verify", <<adr, sz, VerifyBuf(adr, sz, diff)>>, <<>>,
               Verify_(Machine(<<>>), adr, sz, VerifyBuf(adr, sz, diff)))

\* SEFC_PerformCommand called on its own; busy status reads find the ready
\* bit clear before the command is over
SEFC_PerformCommand_Call ==
    \E dwCommand \in {SEFC_FCMD_EA, SEFC_FCMD_SLB, SEFC_FCMD_GLB, SEFC_FCMD_SGPB, SEFC_FCMD_GGPB},
       dwArgument \in {0, 5}, errs \in ErrSeqsAt({1}, ErrorFlagSets), busy \in 0 .. MaxBusy :
        /\ dwArgument < 65536
        /\ Ran("SEFC_PerformCommand", <<dwCommand, dwArgument, busy>>, errs,
               ReturnError(SEFC_PerformCommand(MachineBusy(errs, busy), dwCommand, dwArgument)))

\* the two erase functions of flashd.c called on their own
EraseAddrs ==
    {IFLASH0_CNC_ADDR + p * IFLASH_PAGE_SIZE + o :
        p \in SamplePages, o \in {0, 100, IFLASH_PAGE_SIZE - 1}}

FLASHD_Erase ==
    \E dwAddress \in EraseAddrs, errs \in ErrSeqsAt({1}, ErrorFlagSets) :
        /\ EraseAsserts(dwAddress)
        /\ Ran("FLASHD_Erase", <<dwAddress>>, errs, FLASHD_Erase_(Machine(errs), dwAddress))

FLASHD_EraseSector ==
    \E dwAddress \in EraseAddrs, errs \in ErrSeqsAt({1}, ErrorFlagSets) :
        /\ EraseAsserts(dwAddress)
        /\ Ran("FLASHD_EraseSector", <<dwAddress>>, errs,
               FLASHD_EraseSector_(Machine(errs), dwAddress))

\* FLASHD_ReadUniqueID with a null or a valid output array
FLASHD_ReadUniqueID ==
    \E pdwUniqueID \in {0, 1}, errs \in ErrSeqsAt({1, 2}, SomeErrorFlags), busy \in 0 .. MaxBusy :
        /\ ncalls < MaxCalls
        /\ Ran("FLASHD_ReadUniqueID", <<pdwUniqueID, busy>>, errs,
               FLASHD_ReadUniqueID_(MachineBusy(errs, busy), pdwUniqueID))

\* ---- the driver functions run command by command ----
\* A call in progress is task: the errors its commands have reported so far
\* (task.errs) fix how far the function has run, since each command depends
\* on the results of the earlier ones only.
PolledCalls ==
    LET B == IFLASH0_CNC_ADDR
        R == IFLASH_LOCK_REGION_SIZE
    IN  {<<"FLASHD_Erase", <<B>>>>,
         <<"FLASHD_EraseSector", <<B + IFLASH_SECTOR_SIZE>>>>,
         <<"FLASHD_Write", <<B + 100, 1, 600>>>>,
         <<"FLASHD_Lock", <<B + R, B + 3 * R>>>>,
         <<"FLASHD_Unlock", <<B, B + R + IFLASH_PAGE_SIZE>>>>,
         <<"FLASHD_IsLocked", <<B, B + R + 5>>>>,
         <<"FLASHD_SetGPNVM", <<1>>>>,
         <<"FLASHD_ClearGPNVM", <<1>>>>}

\* the error flags a command of such a call may report, and the sequences
\* of them that the commands of one call may report
PollErrs == {0, EEFC_FSR_FCMDE}
ErrPrefixes == UNION {[1 .. n -> PollErrs] : n \in 0 .. MaxCmds}

\* the function as far as it runs on the errors reported so far; the runs
\* are worked out when the call begins, the hardware being left alone until
\* the call returns
Replay == task.plan[task.errs]

\* a driver function is called; the controller answers commands of this call
\* (responsive) or never sets the ready bit again
Begin ==
    \E c \in PolledCalls, responsive \in BOOLEAN :
        /\ task.pc = "idle"
        /\ ncalls < MaxCalls
        /\ OpAsserts(c[1], c[2])
        /\ dwUseIAP # 0 => responsive
        /\ RunOp(c[1], c[2], Machine(<<>>)).ncmd <= MaxCmds
        /\ task' = [Idle EXCEPT !.pc = "run", !.op = c[1], !.args = c[2],
                                !.responsive = responsive,
                                !.plan = [es \in ErrPrefixes |->
                                            RunOp(c[1], c[2], Machine(es))]]
        /\ UNCHANGED <<flash, fill, latch, lockBits, gpnvm, frr, pdwPageBuffer, dwUseIAP,
                       call, pre, ncalls, dev_base_adr, writers, initDone>>

\* the function reaches its next command on the IAP path: the ROM routine
\* runs the command and returns, the controller reporting error flags e
IssueIAP ==
    \E e \in PollErrs :
        /\ task.pc = "run"
        /\ dwUseIAP # 0
        /\ Replay.ncmd > Len(task.errs)
        /\ task' = [task EXCEPT !.errs = Append(@, e)]
        /\ UNCHANGED <<flash, fill, latch, lockBits, gpnvm, frr, pdwPageBuffer, dwUseIAP,
                       call, pre, ncalls, dev_base_adr, writers, initDone>>

\* the function reaches its next command on the direct path: it writes
\* EEFC_FCR and enters the polling loop
IssueDirect ==
    /\ task.pc = "run"
    /\ dwUseIAP = 0
    /\ Replay.ncmd > Len(task.errs)
    /\ task' = [task EXCEPT !.pc = "poll", !.ready = FALSE, !.e = 0]
    /\ UNCHANGED <<flash, fill, latch, lockBits, gpnvm, frr, pdwPageBuffer, dwUseIAP,
                   call, pre, ncalls, dev_base_adr, writers, initDone>>

\* the controller finishes the command: EEFC_FSR shows FRDY and flags e
ControllerReady ==
    \E e \in PollErrs :
        /\ task.pc = "poll"
        /\ task.responsive
        /\ ~task.ready
        /\ task' = [task EXCEPT !.ready = TRUE, !.e = e]
        /\ UNCHANGED <<flash, fill, latch, lockBits, gpnvm, frr, pdwPageBuffer, dwUseIAP,
                       call, pre, ncalls, dev_base_adr, writers, initDone>>

\* what a read of EEFC_FSR delivers during the polling loop
StatusNow == IF task.ready THEN EEFC_FSR_FRDY + task.e ELSE 0

\* one turn of the polling loop that reads the ready bit clear
PollBusy ==
    /\ task.pc = "poll"
    /\ ~ReadyBitSet(StatusNow)
    /\ task.polls < MaxBusy
    /\ task' = [task EXCEPT !.polls = @ + 1]
    /\ UNCHANGED <<flash, fill, latch, lockBits, gpnvm, frr, pdwPageBuffer, dwUseIAP,
                   call, pre, ncalls, dev_base_adr, writers, initDone>>

\* the turn of the polling loop that reads the ready bit set: the command
\* returns the error flags of that read
PollReady ==
    /\ task.pc = "poll"
    /\ ReadyBitSet(StatusNow)
    /\ task' = [task EXCEPT !.pc = "run", !.errs = Append(@, ErrorFlags(StatusNow)),
                            !.ready = FALSE, !.e = 0]
    /\ UNCHANGED <<flash, fill, latch, lockBits, gpnvm, frr, pdwPageBuffer, dwUseIAP,
                   call, pre, ncalls, dev_base_adr, writers, initDone>>

\* no command is left: the function returns
Return ==
    /\ task.pc = "run"
    /\ Replay.ncmd = Len(task.errs)
    /\ Commit(Replay)
    /\ call' = [op |-> task.op, args |-> task.args, ret |-> Replay.ret, ev |-> Replay.ev,
                out |-> Replay.out, errs |-> task.errs, asserted |-> FALSE]
    /\ ncalls' = ncalls + 1
    /\ task' = [task EXCEPT !.pc = "idle", !.plan = <<>>]
    /\ UNCHANGED <<dwUseIAP, dev_base_adr, writers, initDone>>

\* the two address functions of efc.c, applied to sampled arguments
SEFC_TranslateAddress ==
    \E dwAddress \in AddrSamples \cup {IFLASH0_CNC_ADDR + IFLASH_SIZE} \cup OutsideSamples :
        IF TranslateAsserts(dwAddress)
        THEN LET t == TranslateAddress(dwAddress)
                 m == [Machine(<<>>) EXCEPT !.out = <<t.page, t.offset>>]
             IN  Ran("SEFC_TranslateAddress", <<dwAddress>>, <<>>, m)
        ELSE Asserted("SEFC_TranslateAddress", <<dwAddress>>)

SEFC_ComputeAddress ==
    \E wPage \in SamplePages \cup {IFLASH_NB_OF_PAGES}, wOffset \in SampleOffsets :
        /\ ComputeAsserts("SEFC0", wPage, wOffset)
        /\ LET m == [Machine(<<>>) EXCEPT !.out = <<ComputeAddress("SEFC0", wPage, wOffset)>>]
           IN  Ran("SEFC_ComputeAddress", <<wPage, wOffset>>, <<>>, m)

\* ---- two FLASHD_Write calls whose steps interleave ----
\* Each call has its own locals (page, offset, the position pos in its
\* buffer, the size left) and goes page by page through three steps: the
\* three memcpy calls into _pdwPageBuffer, the word stores into the write
\* window, the write-page command. ser tells whether the caller serializes
\* the calls; bufBy is the call that staged _pdwPageBuffer last, latchBy the
\* call whose stores filled the latch and latchSrc the call whose staging
\* those stores copied; last describes the page committed last.
NoCommit == [by |-> 0, page |-> 0, clean |-> TRUE, storedBy |-> 0, stagedBy |-> 0]
NoWriters == [ser |-> TRUE, w |-> <<>>, bufBy |-> 0, latchBy |-> 0, latchSrc |-> 0,
              last |-> NoCommit]

\* the arguments of the two calls: <<dwAddress, dwSize>>, buffer number i
WriterArgs(i) ==
    IF i = 1
    THEN {<<IFLASH0_CNC_ADDR + 100, 8>>, <<IFLASH0_CNC_ADDR + 100, 600>>,
          <<IFLASH0_CNC_ADDR + IFLASH_PAGE_SIZE, 8>>}
    ELSE {<<IFLASH0_CNC_ADDR, 8>>, <<IFLASH0_CNC_ADDR + IFLASH_PAGE_SIZE + 100, 8>>,
          <<IFLASH0_CNC_ADDR + IFLASH_PAGE_SIZE, IFLASH_PAGE_SIZE>>}

NewWriter(i, a) ==
    [pc |-> "new", page |-> TranslateAddress(a[1]).page, offset |-> TranslateAddress(a[1]).offset,
     pos |-> 0, size |-> a[2], seed |-> i]

Other(i) == 3 - i
InFlight(i) == writers.w[i].pc \in {"stage", "store", "cmd"}
WriterPageAddress(i) == OrWriteWindow(ComputeAddress("SEFC0", writers.w[i].page, 0))
WriterWriteSize(i) == Min(IFLASH_PAGE_SIZE - writers.w[i].offset, writers.w[i].size)

\* the two calls are about to be made, serialized or not
StartWrites ==
    \E a1 \in WriterArgs(1), a2 \in WriterArgs(2), ser \in BOOLEAN :
        /\ writers = NoWriters
        /\ WriteAsserts(a1[1], a1[2]) /\ WriteAsserts(a2[1], a2[2])
        /\ writers' = [NoWriters EXCEPT !.ser = ser,
                                        !.w = <<NewWriter(1, a1), NewWriter(2, a2)>>]
        /\ UNCHANGED <<flash, fill, latch, lockBits, gpnvm, frr, pdwPageBuffer, dwUseIAP,
                       call, pre, ncalls, dev_base_adr, task, initDone>>

\* call i stages its next page in _pdwPageBuffer; a serializing caller
\* lets a call begin only when the other one is not in progress
WriterStage(i) ==
    /\ writers.w # <<>>
    /\ writers.w[i].pc \in {"new", "stage"}
    /\ (writers.w[i].pc = "new" /\ writers.ser) => ~InFlight(Other(i))
    /\ pdwPageBuffer' = StagePage(Machine(<<>>), WriterPageAddress(i), writers.w[i].offset,
                                  writers.w[i].seed, writers.w[i].pos, WriterWriteSize(i)).buf
    /\ writers' = [writers EXCEPT !.w[i].pc = "store", !.bufBy = i]
    /\ UNCHANGED <<flash, fill, latch, lockBits, gpnvm, frr, dwUseIAP,
                   call, pre, ncalls, dev_base_adr, task, initDone>>

\* call i copies _pdwPageBuffer to the write window, word by word
WriterStore(i) ==
    /\ writers.w # <<>>
    /\ writers.w[i].pc = "store"
    /\ latch' = StorePage(Machine(<<>>), WriterPageAddress(i)).latch
    /\ writers' = [writers EXCEPT !.w[i].pc = "cmd", !.latchBy = i, !.latchSrc = writers.bufBy]
    /\ UNCHANGED <<flash, fill, lockBits, gpnvm, frr, pdwPageBuffer, dwUseIAP,
                   call, pre, ncalls, dev_base_adr, task, initDone>>

\* byte k of its page as call i means it to be: its own data where the
\* page overlaps them, the flash content before the command elsewhere
MeantByte(i, k) ==
    IF k >= writers.w[i].offset /\ k < writers.w[i].offset + WriterWriteSize(i)
    THEN BufByte(writers.w[i].seed, writers.w[i].pos + k - writers.w[i].offset)
    ELSE ByteIn(flash, fill, IFLASH0_CNC_ADDR + writers.w[i].page * IFLASH_PAGE_SIZE + k)

\* call i issues its write-page command, which commits the latch, and
\* moves on to its next page or returns
WriterCommand(i) ==
    /\ writers.w # <<>>
    /\ writers.w[i].pc = "cmd"
    /\ flash' = SEFC_PerformCommand(Machine(<<>>), SEFC_FCMD_WP, writers.w[i].page).flash
    /\ writers' = [writers EXCEPT
          !.w[i].pc = IF writers.w[i].size = WriterWriteSize(i) THEN "done" ELSE "stage",
          !.w[i].pos = @ + WriterWriteSize(i),
          !.w[i].size = @ - WriterWriteSize(i),
          !.w[i].page = U16(@ + 1),
          !.w[i].offset = 0,
          !.last = [by |-> i, page |-> writers.w[i].page,
                    clean |-> \A k \in PageIdx : latch[k] = MeantByte(i, k),
                    storedBy |-> writers.latchBy, stagedBy |-> writers.latchSrc]]
    /\ UNCHANGED <<fill, latch, lockBits, gpnvm, frr, pdwPageBuffer, dwUseIAP,
                   call, pre, ncalls, dev_base_adr, task, initDone>>

\* ------------------------------------------------------------- specification
NoCall == [op |-> "none", args |-> <<>>, ret |-> 0, ev |-> <<>>, out |-> <<>>, errs |-> <<>>,
           asserted |-> FALSE]

InitHw(seeds, locks, fuses) ==
    /\ flash = <<>>
    /\ fill \in {[seed |-> s, all |-> FALSE, sectors |-> {}] : s \in seeds}
    /\ latch = [i \in PageIdx |-> 255]
    /\ lockBits \in locks
    /\ gpnvm \in fuses
    /\ frr = <<>>
    /\ pdwPageBuffer = [i \in PageIdx |-> 0]
    /\ dwUseIAP = 1
    /\ call = NoCall
    /\ pre = Snapshot
    /\ ncalls = 0
    /\ dev_base_adr = 0
    /\ task = Idle
    /\ writers = NoWriters
    /\ initDone = FALSE

Init == InitHw({0, 1}, {{}}, {{}})

Next ==
    \/ FLASHD_Initialize
    \/ FLASHD_Write

Spec == Init /\ [][Next]_vars

\* the lock operations, from sampled lock-bit vectors
InitLock == InitHw({0}, LockStates, {{}})
NextLock ==
    \/ FLASHD_Initialize
    \/ FLASHD_Lock
    \/ FLASHD_Unlock
    \/ FLASHD_IsLocked
SpecLock == InitLock /\ [][NextLock]_vars

\* the GPNVM operations, from sampled fuse states
InitGpnvm == InitHw({0}, {{}}, FuseStates)
NextGpnvm ==
    \/ FLASHD_Initialize
    \/ FLASHD_IsGPNVMSet
    \/ FLASHD_SetGPNVM
    \/ FLASHD_ClearGPNVM
SpecGpnvm == InitGpnvm /\ [][NextGpnvm]_vars

\* the address functions
InitAddr == InitHw({0}, {{}}, {{}})
NextAddr ==
    \/ SEFC_TranslateAddress
    \/ SEFC_ComputeAddress
SpecAddr == InitAddr /\ [][NextAddr]_vars

\* the adapter, from sampled fuse and lock states
InitPrg == InitHw({0}, {{}, 0 .. (IFLASH_NB_OF_LOCK_BITS - 1)},
                  {{}, {GPNVM_BOOT_MODE_BIT0}, {GPNVM_BOOT_MODE_BIT0, GPNVM_BOOT_MODE_BIT1}})
NextPrg ==
    \/ FlashPrg_Init
    \/ UnInit
    \/ EraseChip
    \/ EraseSector
    \/ ProgramPage
    \/ Verify
SpecPrg == InitPrg /\ [][NextPrg]_vars

\* single commands
InitCmd == InitHw({0}, {{}, {0}}, {{}, {GPNVM_BOOT_MODE_BIT0}})
NextCmd ==
    \/ FLASHD_Initialize
    \/ SEFC_PerformCommand_Call
    \/ FLASHD_ReadUniqueID
    \/ FLASHD_Erase
    \/ FLASHD_EraseSector
SpecCmd == InitCmd /\ [][NextCmd]_vars

\* FLASHD_Write on 32-bit arguments
InitWide == InitHw({0, 1}, {{}}, {{}})
NextWide ==
    \/ FLASHD_Initialize
    \/ FLASHD_Write_Wide
SpecWide == InitWide /\ [][NextWide]_vars

\* two FLASHD_Write calls step by step
InitTwo == InitHw({0}, {{}}, {{}})
NextTwo ==
    \/ StartWrites
    \/ \E i \in 1 .. 2 : WriterStage(i)
    \/ \E i \in 1 .. 2 : WriterStore(i)
    \/ \E i \in 1 .. 2 : WriterCommand(i)
SpecTwo == InitTwo /\ [][NextTwo]_vars

\* the driver functions command by command; the CPU keeps running the
\* function and its polling loop, and a responsive controller finishes
\* every command
InitPoll == InitHw({0}, {{}, {1}}, {{}, {1}})
NextPoll ==
    \/ FLASHD_Initialize
    \/ Begin
    \/ IssueIAP
    \/ IssueDirect
    \/ ControllerReady
    \/ PollBusy
    \/ PollReady
    \/ Return
SpecPoll ==
    /\ InitPoll /\ [][NextPoll]_vars
    /\ WF_vars(IssueIAP) /\ WF_vars(IssueDirect) /\ WF_vars(PollReady) /\ WF_vars(Return)
    /\ WF_vars(ControllerReady)

\* ------------------------------------------------------------- reading a call
IsCmd(e) == e.k \in {"iap", "fcr"}
\* the commands (code a, argument v) and the word stores of the last call
Cmds == SelectSeq(call.ev, IsCmd)
Stores == SelectSeq(call.ev, LAMBDA e : e.k = "store")
\* the error flags the controller reported for the k-th command of the call
Reported(k) == IF k \in DOMAIN call.errs THEN call.errs[k] ELSE 0
\* the call ran to its return and no command of it reported an error
NoErrorReported == ~call.asserted /\ \A k \in 1 .. Len(Cmds) : Reported(k) = 0

\* the byte now, and before the last call, at flash address a
Now(a) == ByteIn(flash, fill, a)
Before(a) == ByteIn(pre.flash, pre.fill, a)
PageOf(a) == (a - IFLASH0_CNC_ADDR) \div IFLASH_PAGE_SIZE
AddrsOfPage(p) ==
    {IFLASH0_CNC_ADDR + p * IFLASH_PAGE_SIZE + i : i \in PageIdx}

WrAddr == call.args[1]
WrSeed == call.args[2]
WrSize == call.args[3]
WroteOk == call.op = "FLASHD_Write" /\ call.ret = 0
\* pages overlapped by [address, address + size)
WrFirstPage == PageOf(WrAddr)
WrPageCount == IF WrSize = 0 THEN 0 ELSE PageOf(WrAddr + WrSize - 1) - WrFirstPage + 1

\* C1: a FLASHD_Write that returns 0 leaves every flash byte outside
\* [address, address + size) as it was before the call, the prefix and suffix
\* of the first and last page included.
C1_WriteFrame ==
    WroteOk =>
        /\ fill = pre.fill
        /\ \A p \in (DOMAIN flash) \cup (DOMAIN pre.flash) :
             \A a \in AddrsOfPage(p) :
                (a < WrAddr \/ a >= WrAddr + WrSize) => Now(a) = Before(a)

\* a short write in the middle of a page returned 0 and changed a byte
C1_Witness ==
    /\ WroteOk
    /\ WrAddr % IFLASH_PAGE_SIZE = 100
    /\ WrSize = 1
    /\ Now(WrAddr) # Before(WrAddr)
    /\ WrFirstPage \in DOMAIN flash

\* C2: a FLASHD_Write in which no command reports an error issues exactly one
\* write-page command per page overlapped by [address, address + size), with
\* consecutive ascending page numbers from the page that contains address.
C2_OneCommandPerPage ==
    (call.op = "FLASHD_Write" /\ NoErrorReported) =>
        /\ Len(Cmds) = WrPageCount
        /\ \A k \in 1 .. Len(Cmds) :
              Cmds[k].a = SEFC_FCMD_WP /\ Cmds[k].v = WrFirstPage + k - 1

\* 600 bytes written 100 bytes into a page: two commands
C2_Witness ==
    /\ call.op = "FLASHD_Write" /\ NoErrorReported
    /\ WrAddr % IFLASH_PAGE_SIZE = 100 /\ WrSize = 600
    /\ Len(Cmds) = 2

\* C3: after a FLASHD_Write that returns 0, flash bytes address ..
\* address + size - 1 equal the buffer's bytes 0 .. size - 1 in order.
C3_WriteContent ==
    WroteOk => \A i \in 0 .. (WrSize - 1) : Now(WrAddr + i) = BufByte(WrSeed, i)

\* a write that starts inside a page and ends in a later page returned 0
C3_Witness ==
    /\ WroteOk
    /\ WrAddr % IFLASH_PAGE_SIZE # 0
    /\ WrPageCount >= 3

\* C4: FLASHD_Write returns 0 only if every write-page command reported no
\* error; when the k-th reports E # 0 it returns exactly E, does no store and
\* no command for a later page, and the bytes of the pages before k keep
\* their new content.
C4_WriteError ==
    call.op = "FLASHD_Write" =>
        /\ call.ret = 0 => NoErrorReported
        /\ \A k \in 1 .. Len(Cmds) :
              Reported(k) # 0 =>
                 /\ call.ret = Reported(k)
                 /\ Len(Cmds) = k
                 /\ Len(Stores) = k * (IFLASH_PAGE_SIZE \div 4)
                 /\ \A i \in 0 .. (WrSize - 1) :
                       PageOf(WrAddr + i) < WrFirstPage + k - 1 =>
                           Now(WrAddr + i) = BufByte(WrSeed, i)

\* the second page of a longer write failed after the first was programmed
C4_Witness ==
    /\ call.op = "FLASHD_Write"
    /\ Len(Cmds) = 2 /\ Reported(2) # 0 /\ call.ret = Reported(2)
    /\ WrPageCount >= 3
    /\ Now(WrAddr) = BufByte(WrSeed, 0) /\ Now(WrAddr) # Before(WrAddr)

\* ------------------------------------------------------------- address functions
InFlash(a) == a >= IFLASH0_CNC_ADDR /\ a < IFLASH0_CNC_ADDR + IFLASH_SIZE
Coordinates(a) == <<TranslateAddress(a).page, TranslateAddress(a).offset>>

\* C5: for every address A of the flash, SEFC_TranslateAddress gives a page
\* in [0, NB_PAGES) and an offset in [0, PAGE_SIZE), SEFC_ComputeAddress of
\* them gives A back, and no other address has the same coordinates.
C5_AddressRoundTrip ==
    (call.op = "SEFC_TranslateAddress" /\ InFlash(call.args[1])) =>
        /\ call.out[1] \in 0 .. (IFLASH_NB_OF_PAGES - 1)
        /\ call.out[2] \in 0 .. (IFLASH_PAGE_SIZE - 1)
        /\ ComputeAddress("SEFC0", call.out[1], call.out[2]) = call.args[1]
        /\ \A B \in AddrSamples : B # call.args[1] => Coordinates(B) # call.out

\* the last byte of the flash was translated
C5_Witness ==
    /\ call.op = "SEFC_TranslateAddress"
    /\ call.args[1] = IFLASH0_CNC_ADDR + IFLASH_SIZE - 1
    /\ call.out = <<IFLASH_NB_OF_PAGES - 1, IFLASH_PAGE_SIZE - 1>>

\* ------------------------------------------------------------- lock regions
LockCall == call.op \in {"FLASHD_Lock", "FLASHD_Unlock"}
\* the call stored the actual range through both output parameters
HasRange == LockCall /\ call.out[1] # -1 /\ call.out[2] # -1
OnRegionBoundary(a) == (a - IFLASH0_CNC_ADDR) % IFLASH_LOCK_REGION_SIZE = 0
\* lock regions in the aligned range of <<start, end>>
RegionsOf(start, end) ==
    (ComputeLockRange(start, end)[2] - ComputeLockRange(start, end)[1])
        \div IFLASH_LOCK_REGION_SIZE
\* what FLASHD_IsLocked(start, end) returns in the current state, the
\* controller reporting no error
IsLockedNow(start, end) == FLASHD_IsLocked_(Machine(<<>>), start, end).ret

\* C6: for start <= end in range, ComputeLockRange returns actual_start <=
\* start and actual_end >= end, both on lock-region boundaries.
C6_LockRangeCovers ==
    HasRange =>
        /\ call.out[1] <= call.args[1]
        /\ call.out[2] >= call.args[2]
        /\ OnRegionBoundary(call.out[1])
        /\ OnRegionBoundary(call.out[2])

\* C7: ComputeLockRange applied to its own output returns that output.
C7_LockRangeIdempotent ==
    HasRange => ComputeLockRange(call.out[1], call.out[2]) = call.out

\* a range that was not aligned was widened to a non-empty aligned range
C7_Witness ==
    /\ HasRange
    /\ call.out[1] < call.args[1]
    /\ call.out[2] > call.args[2]

\* C8: FLASHD_IsLocked(start, end) after a successful FLASHD_Lock(start, end)
\* returns the number of lock regions of the aligned range, after a
\* successful FLASHD_Unlock(start, end) it returns 0, and its result is
\* always between 0 and the number of regions of the range.
C8_LockThenQuery ==
    /\ (call.op = "FLASHD_Lock" /\ call.ret = 0) =>
          IsLockedNow(call.args[1], call.args[2]) = RegionsOf(call.args[1], call.args[2])
    /\ (call.op = "FLASHD_Unlock" /\ call.ret = 0) =>
          IsLockedNow(call.args[1], call.args[2]) = 0
    /\ call.op = "FLASHD_IsLocked" =>
          call.ret \in 0 .. RegionsOf(call.args[1], call.args[2])

\* C9: FLASHD_IsLocked(start, end) returns the number of lock regions that
\* overlap the bytes [start, end) and have their lock bit set.
LockedOverlapping(start, end) ==
    {r \in lockBits :
        /\ start < end
        /\ r * IFLASH_LOCK_REGION_SIZE < end - IFLASH0_CNC_ADDR
        /\ (r + 1) * IFLASH_LOCK_REGION_SIZE > start - IFLASH0_CNC_ADDR}

C9_IsLockedCount ==
    (call.op = "FLASHD_IsLocked" /\ NoErrorReported) =>
        call.ret = Cardinality(LockedOverlapping(call.args[1], call.args[2]))

\* ------------------------------------------------------------- GPNVM bits
\* what FLASHD_IsGPNVMSet(index) returns in the current state, the controller
\* reporting no error
IsGPNVMSetNow(usGPVM) == FLASHD_IsGPNVMSet_(Machine(<<>>), usGPVM).ret

\* C10: with no error reported, FLASHD_SetGPNVM(index) then
\* FLASHD_IsGPNVMSet(index) gives 1, FLASHD_ClearGPNVM(index) then
\* FLASHD_IsGPNVMSet(index) gives 0, and no other GPNVM bit changes.
C10_SetClearThenQuery ==
    /\ (call.op = "FLASHD_SetGPNVM" /\ NoErrorReported) =>
          /\ IsGPNVMSetNow(call.args[1]) = 1
          /\ gpnvm \ {call.args[1]} = pre.gpnvm \ {call.args[1]}
    /\ (call.op = "FLASHD_ClearGPNVM" /\ NoErrorReported) =>
          /\ IsGPNVMSetNow(call.args[1]) = 0
          /\ gpnvm \ {call.args[1]} = pre.gpnvm \ {call.args[1]}

\* a clear bit was set by the set command while other bits were set
C10_Witness ==
    /\ call.op = "FLASHD_SetGPNVM" /\ NoErrorReported
    /\ call.args[1] \notin pre.gpnvm
    /\ pre.gpnvm # {}
    /\ Len(Cmds) = 2 /\ Cmds[2].a = SEFC_FCMD_SGPB
    /\ IsGPNVMSetNow(call.args[1]) = 1

\* the commands of the last call as <<code, argument>> pairs
CmdPairs == [i \in 1 .. Len(Cmds) |-> <<Cmds[i].a, Cmds[i].v>>]
SetOnSet ==
    call.op = "FLASHD_SetGPNVM" /\ ~call.asserted /\ call.args[1] \in pre.gpnvm
ClearOnClear ==
    call.op = "FLASHD_ClearGPNVM" /\ ~call.asserted /\ call.args[1] \notin pre.gpnvm

\* C11 as stated: FLASHD_SetGPNVM(index) on a bit that is already set writes
\* no command to the controller and returns 0, and FLASHD_ClearGPNVM(index)
\* on a bit that is already clear writes no command.
C11_NoCommand ==
    /\ SetOnSet => (Len(Cmds) = 0 /\ call.ret = 0)
    /\ ClearOnClear => Len(Cmds) = 0

\* C11 amended: with no error reported, FLASHD_SetGPNVM(index) on a set bit
\* and FLASHD_ClearGPNVM(index) on a clear bit write exactly one command, the
\* get-GPNVM-bits query, and no set or clear command; they return 0 and leave
\* the GPNVM bits as they were.
C11_OnlyTheQuery ==
    ((SetOnSet \/ ClearOnClear) /\ NoErrorReported) =>
        /\ CmdPairs = <<(<<SEFC_FCMD_GGPB, 0>>)>>
        /\ call.ret = 0
        /\ gpnvm = pre.gpnvm

\* both cases happened: a set on a set bit, or a clear on a clear bit, next
\* to other bits in the opposite state
C11_Witness ==
    /\ NoErrorReported
    /\ \/ SetOnSet /\ pre.gpnvm # {call.args[1]}
       \/ ClearOnClear /\ pre.gpnvm # {}
    /\ Len(Cmds) = 1

\* ------------------------------------------------------------- adapter
AdapterCall ==
    /\ call.op \in {"Init", "UnInit", "EraseChip", "EraseSector", "ProgramPage"}
    /\ ~call.asserted

\* C12: Init, UnInit, EraseChip, EraseSector and ProgramPage return 0 or 1,
\* whatever error flags the controller reports.
C12_StatusIsZeroOrOne == AdapterCall => call.ret \in {0, 1}

\* C13: Init returns 1 whenever one of its two FLASHD_SetGPNVM calls returned
\* a non-zero code, and 0 only when both returned 0.
C13_InitReportsFailure ==
    call.op = "Init" =>
        /\ (call.out[1] # 0 \/ call.out[2] # 0) => call.ret = 1
        /\ call.ret = 0 => (call.out[1] = 0 /\ call.out[2] = 0)

\* positions of the erase-sector and of the failed clear-lock-bit commands
EraseSectorAt == {i \in 1 .. Len(Cmds) : Cmds[i].a = SEFC_FCMD_ES}
FailedUnlockAt == {i \in 1 .. Len(Cmds) : Cmds[i].a = SEFC_FCMD_CLB /\ Reported(i) # 0}

\* C14: EraseSector(adr), adr a sector start of the sector table, issues the
\* clear-lock-bit command of each of the 16 lock regions of the sector before
\* the erase-sector command for adr's page, and when a clear-lock-bit command
\* reports an error it returns 1 and issues no erase-sector command.
C14_UnlockBeforeErase ==
    (call.op = "EraseSector" /\ ~call.asserted) =>
        LET p == PageOf(call.args[1])
        IN  /\ FailedUnlockAt = {} =>
                  /\ Len(Cmds) = 17
                  /\ \A i \in 1 .. 16 :
                        CmdPairs[i] = <<SEFC_FCMD_CLB, p + (i - 1) * PagesPerRegion>>
                  /\ CmdPairs[17] = <<SEFC_FCMD_ES, p>>
            /\ FailedUnlockAt # {} => (call.ret = 1 /\ EraseSectorAt = {})

\* the last sector, all of it locked before, was unlocked and erased; and a
\* clear-lock-bit command failed in some other call
C14_Witness ==
    /\ call.op = "EraseSector" /\ call.ret = 0
    /\ call.args[1] = IFLASH0_CNC_ADDR + IFLASH_SIZE - IFLASH_SECTOR_SIZE
    /\ pre.lockBits = 0 .. (IFLASH_NB_OF_LOCK_BITS - 1)
    /\ lockBits = 0 .. (IFLASH_NB_OF_LOCK_BITS - 17)
    /\ (IFLASH_NB_OF_PAGES \div PagesPerSector) - 1 \in fill.sectors

\* a clear-lock-bit command after the first failed and the call returned 1
C14_WitnessError ==
    /\ call.op = "EraseSector" /\ call.ret = 1
    /\ 16 \in FailedUnlockAt

\* ------------------------------------------------------------- one command
DirectCommand == call.op = "SEFC_PerformCommand" /\ dwUseIAP = 0
LastEvent == call.ev[Len(call.ev)]
StatusReadsAt == {i \in 1 .. Len(call.ev) : call.ev[i].k = "fsr"}

\* C15: on the direct register path SEFC_PerformCommand writes the command
\* word once, returns at a status read in which the ready bit is set (every
\* read before it found the bit clear), and returns the three error flags of
\* that read, which is 0 exactly when none of them was set in it.
C15_DirectPath ==
    DirectCommand =>
        /\ Len(Cmds) = 1
        /\ call.ev[1].k = "fcr"
        /\ CmdPairs[1] = <<call.args[1], call.args[2]>>
        /\ StatusReadsAt = 2 .. Len(call.ev)
        /\ LastEvent.v % 2 = 1
        /\ \A i \in StatusReadsAt \ {Len(call.ev)} : call.ev[i].v % 2 = 0
        /\ call.ret = LastEvent.v - 1
        /\ call.ret = 0 <=> (LastEvent.v \div 2) % 8 = 0

\* two reads found the controller busy and the third delivered all three
\* error flags
C15_Witness ==
    /\ DirectCommand
    /\ Len(call.ev) = 4
    /\ call.ret = EEFC_FSR_FCMDE + EEFC_FSR_FLOCKE + EEFC_FSR_FLERR

\* ------------------------------------------------------------- termination
\* C16: with a controller that sets the ready bit after every command, each
\* driver function that was called returns; with a controller that never
\* sets it, the polling loop of SEFC_PerformCommand is never left.
C16_ReturnsIffReady ==
    /\ (task.pc # "idle" /\ task.responsive) ~> (task.pc = "idle")
    /\ [][(task.pc = "poll" /\ ~task.responsive) => task'.pc = "poll"]_vars

\* a two-page write returned after its polling loop had found the controller
\* busy and then ready
C16_Witness ==
    /\ call.op = "FLASHD_Write" /\ call.ret = 0
    /\ Len(Cmds) = 2
    /\ dwUseIAP = 0
    /\ task.polls = MaxBusy

\* a call is stuck in the polling loop of its first command
C16_WitnessStuck ==
    /\ task.pc = "poll" /\ ~task.responsive
    /\ task.polls = MaxBusy

\* ------------------------------------------------------------- assertions
TranslateCall == call.op = "SEFC_TranslateAddress"

\* C17 as stated: SEFC_TranslateAddress fails its assertion, and gives no page
\* coordinate, for every address that is not in
\* [IFLASH_BASE, IFLASH_BASE + IFLASH_SIZE).
C17_FailsOutsideFlash ==
    (TranslateCall /\ ~InFlash(call.args[1])) => (call.asserted /\ call.out = <<>>)

\* C17: SEFC_TranslateAddress fails its assertion, and gives no page
\* coordinate, for every address below IFLASH_BASE or above
\* IFLASH_BASE + IFLASH_SIZE; the address IFLASH_BASE + IFLASH_SIZE, one past
\* the last byte, is accepted and gives page IFLASH_NB_OF_PAGES, offset 0.
C17_FailsBeyondEnd ==
    TranslateCall =>
        /\ (call.args[1] < IFLASH0_CNC_ADDR \/ call.args[1] > IFLASH0_CNC_ADDR + IFLASH_SIZE)
               => (call.asserted /\ call.out = <<>>)
        /\ call.args[1] = IFLASH0_CNC_ADDR + IFLASH_SIZE
               => (~call.asserted /\ call.out = <<IFLASH_NB_OF_PAGES, 0>>)

\* the first address above the accepted ones stopped at the assertion
C17_Witness ==
    /\ TranslateCall
    /\ call.args[1] = IFLASH0_CNC_ADDR + IFLASH_SIZE + 1
    /\ call.asserted

GpnvmCall == call.op \in {"FLASHD_IsGPNVMSet", "FLASHD_SetGPNVM", "FLASHD_ClearGPNVM"}

\* C18: FLASHD_IsGPNVMSet, FLASHD_SetGPNVM and FLASHD_ClearGPNVM called with
\* an index >= GPNVM_NUM_MAX stop at the assertion before any command is
\* written to the controller: no event of any kind, the GPNVM bits and the
\* rest of the hardware as before the call.
C18_AssertBeforeCommand ==
    (GpnvmCall /\ call.args[1] >= GPNVM_NUM_MAX) =>
        /\ call.asserted
        /\ call.ev = <<>>
        /\ gpnvm = pre.gpnvm
        /\ Snapshot = pre

\* FLASHD_SetGPNVM(GPNVM_NUM_MAX) stopped at the assertion with fuses set
C18_Witness ==
    /\ call.op = "FLASHD_SetGPNVM"
    /\ call.args[1] = GPNVM_NUM_MAX
    /\ call.asserted
    /\ pre.gpnvm # {}

\* ------------------------------------------------------------- unique identifier
ReadsUniqueID == call.op = "FLASHD_ReadUniqueID" /\ call.args[1] # 0
\* the bus events FLASHD_ReadUniqueID is to make ahead of the status polls:
\* the start command, the four word reads, the stop command
UniqueIDAccesses ==
    <<(<<"fcr", SEFC_FCMD_STUI>>),
      (<<"read", IFLASH0_CNC_ADDR>>), (<<"read", IFLASH0_CNC_ADDR + 4>>),
      (<<"read", IFLASH0_CNC_ADDR + 8>>), (<<"read", IFLASH0_CNC_ADDR + 12>>),
      (<<"fcr", SEFC_FCMD_SPUI>>)>>

\* C19: FLASHD_ReadUniqueID with a non-null output makes, in this order and
\* with nothing in between, one write of the start-unique-ID command, reads
\* of the four words at base, base + 4, base + 8, base + 12, one write of the
\* stop-unique-ID command, then status reads of which the last one, and only
\* the last one, has the ready bit set; it returns 0 after that read and
\* delivers the four words it read.
C19_UniqueIDSequence ==
    ReadsUniqueID =>
        /\ Len(call.ev) >= 7
        /\ [i \in 1 .. 6 |-> <<call.ev[i].k, call.ev[i].a>>] = UniqueIDAccesses
        /\ StatusReadsAt = 7 .. Len(call.ev)
        /\ \A i \in 7 .. (Len(call.ev) - 1) : call.ev[i].v % 2 = 0
        /\ LastEvent.k = "fsr" /\ LastEvent.v % 2 = 1
        /\ call.ret = 0
        /\ call.out = [i \in 1 .. 4 |-> call.ev[i + 1].v]

\* the identifier was read while the controller needed two status polls
\* to finish the stop command
C19_Witness ==
    /\ ReadsUniqueID
    /\ Len(call.ev) = 9
    /\ call.out[1] = UniqueIdWord(0)
    /\ call.ret = 0

\* ------------------------------------------------------------- lock commands
\* the aligned range <<actual start, actual end>> of the last lock call
ActualRange == ComputeLockRange(call.args[1], call.args[2])
ActualStartPage == PageOf(ActualRange[1])
\* one command dwCommand per lock region of the aligned range, first page of
\* each region as argument, in ascending order
OnePerRegion(dwCommand) ==
    [i \in 1 .. RegionsOf(call.args[1], call.args[2]) |->
        <<dwCommand, ActualStartPage + (i - 1) * PagesPerRegion>>]

\* C20: when no command reports an error, FLASHD_Lock(start, end) issues
\* exactly one set-lock-bit command, and FLASHD_Unlock(start, end) exactly
\* one clear-lock-bit command, per lock region of the aligned range
\* [actual start, actual end), with the page arguments actual start page,
\* actual start page + numPagesInRegion, ... in ascending order, and no
\* other command.
C20_OneCommandPerRegion ==
    /\ (call.op = "FLASHD_Lock" /\ NoErrorReported) => CmdPairs = OnePerRegion(SEFC_FCMD_SLB)
    /\ (call.op = "FLASHD_Unlock" /\ NoErrorReported) => CmdPairs = OnePerRegion(SEFC_FCMD_CLB)
    /\ (LockCall /\ NoErrorReported) =>
           \A i \in 1 .. Len(Cmds) :
               /\ Cmds[i].v * IFLASH_PAGE_SIZE + IFLASH0_CNC_ADDR >= ActualRange[1]
               /\ Cmds[i].v * IFLASH_PAGE_SIZE + IFLASH0_CNC_ADDR < ActualRange[2]

\* a range that starts and ends inside lock regions was locked with one
\* command for each of its regions
C20_Witness ==
    /\ call.op = "FLASHD_Lock" /\ NoErrorReported
    /\ Len(Cmds) >= 2
    /\ call.args[1] # ActualRange[1]
    /\ call.args[2] # ActualRange[2]

\* ------------------------------------------------------------- lock errors
\* a command of the last call reported an error
ErrorReported == \E k \in 1 .. Len(Cmds) : Reported(k) # 0
\* the first command of the last call that reported an error
FirstError == CHOOSE k \in 1 .. Len(Cmds) : Reported(k) # 0 /\ \A j \in 1 .. (k - 1) : Reported(j) = 0
\* the lock regions whose command came before the failing one
Processed == {Cmds[i].v \div PagesPerRegion : i \in 1 .. (FirstError - 1)}
\* what the call was to store through pActualStart (i = 1) and pActualEnd
\* (i = 2): the aligned bound, or nothing (-1) through a null pointer
StoredRange == [i \in 1 .. 2 |-> IF call.args[i + 2] THEN ActualRange[i] ELSE -1]

\* C21: when the command for some region reports an error, FLASHD_Lock and
\* FLASHD_Unlock return that error code, issue no command for the remaining
\* regions (the commands are the first ones of the sequence of C20, up to
\* the failing one), leave the regions already processed in their new lock
\* state, and have stored the aligned range through the non-null output
\* parameters.
C21_LockError ==
    (LockCall /\ ErrorReported) =>
        /\ call.ret = Reported(FirstError)
        /\ Len(Cmds) = FirstError
        /\ CmdPairs = SubSeq(OnePerRegion(IF call.op = "FLASHD_Lock" THEN SEFC_FCMD_SLB
                                          ELSE SEFC_FCMD_CLB), 1, FirstError)
        /\ call.op = "FLASHD_Lock" => Processed \subseteq lockBits
        /\ call.op = "FLASHD_Unlock" => Processed \cap lockBits = {}
        /\ call.out = StoredRange

\* the second lock command of a range of several regions failed: the first
\* region is newly locked and the range was stored
C21_Witness ==
    /\ call.op = "FLASHD_Lock" /\ ErrorReported
    /\ FirstError = 2
    /\ RegionsOf(call.args[1], call.args[2]) > 2
    /\ Processed # {} /\ Processed \cap pre.lockBits = {}
    /\ call.args[3] /\ call.out = ActualRange

\* ------------------------------------------------------------- word stores
WordsPerPage == IFLASH_PAGE_SIZE \div 4
\* the positions of the commands among the bus events of the last call
CmdIdx == {i \in 1 .. Len(call.ev) : IsCmd(call.ev[i])}
\* the write-window address of word x of page p (flash address | 0xA0000000)
WindowWord(p, x) == [hi |-> 5, lo |-> IFLASH0_CNC_ADDR + p * IFLASH_PAGE_SIZE + 4 * x]

\* C22: for each page FLASHD_Write programs, the IFLASH_PAGE_SIZE / 4 bus
\* events just before its write-page command are 32-bit stores to the words
\* 0, 1, ... of the page's write window in ascending order, the event before
\* them (if any) is the status read with the ready bit set that ended the
\* previous page's command, and the call makes no other store.
C22_WordStoresPerPage ==
    call.op = "FLASHD_Write" =>
        /\ Len(Stores) = WordsPerPage * Len(Cmds)
        /\ \A c \in CmdIdx :
              /\ c > WordsPerPage
              /\ \A x \in 0 .. (WordsPerPage - 1) :
                    /\ call.ev[c - WordsPerPage + x].k = "store"
                    /\ call.ev[c - WordsPerPage + x].a = WindowWord(call.ev[c].v, x)
              /\ c = WordsPerPage + 1
                 \/ /\ call.ev[c - WordsPerPage - 1].k = "fsr"
                    /\ call.ev[c - WordsPerPage - 1].v % 2 = 1

\* three pages were programmed by one call, the first from inside the page
C22_Witness ==
    /\ call.op = "FLASHD_Write" /\ NoErrorReported
    /\ Len(Cmds) = 3
    /\ WrAddr % IFLASH_PAGE_SIZE # 0
    /\ Len(Stores) = 3 * WordsPerPage

\* ------------------------------------------------------------- ROM path
IAPCommand == call.op = "SEFC_PerformCommand" /\ dwUseIAP # 0

C24_ReadsAfterModeEntered ==
    ReadsUniqueID =>
        \A i \in 1 .. Len(call.ev) :
            call.ev[i].k = "read" =>
                \E c \in 1 .. (i - 1), j \in 1 .. (i - 1) :
                    /\ c < j
                    /\ call.ev[c].k = "fcr" /\ call.ev[c].a = SEFC_FCMD_STUI
                    /\ call.ev[j].k = "fsr" /\ call.ev[j].v % 2 = 0

\* ------------------------------------------------------------- two writers
\* C25: when the FLASHD_Write calls are serialized, every page a write-page
\* command commits holds the data of the call that issued the command where
\* the page overlaps them and the earlier flash content elsewhere. (That
\* calls which interleave can commit a page staged by the other call is
\* the reachable state C25_Witness.)
C25_SerializedWritesClean ==
    (writers.ser /\ writers.last.by # 0) =>
        /\ writers.last.clean
        /\ writers.last.storedBy = writers.last.by
        /\ writers.last.stagedBy = writers.last.by

\* without serialization a call committed a page that it had copied to the
\* write window itself, from _pdwPageBuffer as the other call had staged it
C25_Witness ==
    /\ ~writers.ser
    /\ writers.last.by # 0
    /\ ~writers.last.clean
    /\ writers.last.storedBy = writers.last.by
    /\ writers.last.stagedBy = Other(writers.last.by)

\* ------------------------------------------------------------- erase
\* C26: for every address of the flash, FLASHD_EraseSector issues exactly
\* one command, erase-sector with the number of the page that contains the
\* address as argument, and FLASHD_Erase exactly one command, erase-all with
\* argument 0; each returns the error flags the command reported, as they
\* are, and issues no other command (no unlock).
C26_OneEraseCommand ==
    /\ (call.op = "FLASHD_EraseSector" /\ InFlash(call.args[1])) =>
          /\ CmdPairs = <<(<<SEFC_FCMD_ES, PageOf(call.args[1])>>)>>
          /\ call.ret = Reported(1)
    /\ (call.op = "FLASHD_Erase" /\ InFlash(call.args[1])) =>
          /\ CmdPairs = <<(<<SEFC_FCMD_EA, 0>>)>>
          /\ call.ret = Reported(1)

\* a sector was erased through an address inside one of its inner pages,
\* and the lock error the command reported came back
C26_Witness ==
    /\ call.op = "FLASHD_EraseSector"
    /\ call.args[1] % IFLASH_PAGE_SIZE # 0
    /\ PageOf(call.args[1]) % PagesPerSector # 0
    /\ call.ret = EEFC_FSR_FLOCKE
    /\ Len(Cmds) = 1

\* ------------------------------------------------------------- Verify
\* the sz bytes of the flash at adr equal buf[0 .. sz - 1]
FlashEquals(adr, sz, buf) == \A i \in 0 .. (sz - 1) : Now(adr + i) = buf[i]

C28_PagesInsideFlash ==
    call.op = "FLASHD_Write" =>
        /\ \A k \in 1 .. Len(Cmds) : Cmds[k].v < IFLASH_NB_OF_PAGES
        /\ \A k \in 1 .. Len(Stores) : InFlash(FlashAlias(Stores[k].a))

\* ------------------------------------------------------------- adapter path
AdapterCommandCall == call.op \in {"EraseChip", "EraseSector", "ProgramPage"}
\* the events after command i are status reads up to one that has the ready
\* bit set
PolledReady(i) ==
    \E j \in (i + 1) .. Len(call.ev) :
        /\ call.ev[j].k = "fsr"
        /\ call.ev[j].v % 2 = 1
        /\ \A l \in (i + 1) .. (j - 1) : call.ev[l].k = "fsr" /\ call.ev[l].v % 2 = 0

C29_WitnessBefore ==
    /\ ~initDone
    /\ call.op = "ProgramPage"
    /\ Len(Cmds) = 1
    /\ call.ret = 0

\* ------------------------------------------------------------- lock query
IsLockedCall == call.op = "FLASHD_IsLocked" /\ ~call.asserted
StatusWords == IFLASH_NB_OF_LOCK_BITS \div 32
ResultReadsAt == {i \in 1 .. Len(call.ev) : call.ev[i].k = "frr"}
\* the words the last StatusWords events of the call delivered
ReadVector == [i \in 1 .. StatusWords |-> call.ev[Len(call.ev) - StatusWords + i].v]
\* the regions FLASHD_IsLocked examines for the range of the call
QueryEndPage == TranslateAddress(call.args[2]).page
QueryStartRegion == U8(TranslateAddress(call.args[1]).page \div PagesPerRegion)
QueryEndRegion ==
    U8(QueryEndPage \div PagesPerRegion + (IF QueryEndPage % PagesPerRegion # 0 THEN 1 ELSE 0))
SetInVector(r) == Bit(ReadVector[(r \div 32) + 1], r % 32) # 0

\* C30: a call of FLASHD_IsLocked issues one command, get-lock-bits; the
\* events after it are the status reads of that command and then the reads
\* of the result register, one per word of the lock-bit vector, which
\* deliver the lock bits as they were at the command when it reported no
\* error; the result counts the examined regions whose bit is set in the
\* words read; and the call changes neither the lock bits nor the flash.
C30_IsLockedReadOnly ==
    IsLockedCall =>
        /\ Len(Cmds) = 1
        /\ Cmds[1].a = SEFC_FCMD_GLB
        /\ IsCmd(call.ev[1])
        /\ ResultReadsAt = (Len(call.ev) - StatusWords + 1) .. Len(call.ev)
        /\ \A i \in 2 .. (Len(call.ev) - StatusWords) : call.ev[i].k = "fsr"
        /\ Reported(1) = 0 => ReadVector = LockWords(pre.lockBits)
        /\ call.ret = Cardinality({r \in QueryStartRegion .. (QueryEndRegion - 1) :
                                      SetInVector(r)})
        /\ lockBits = pre.lockBits
        /\ flash = pre.flash
        /\ fill = pre.fill

\* a query over two regions, one of them locked, counted one
C30_Witness ==
    /\ IsLockedCall
    /\ Reported(1) = 0
    /\ QueryEndRegion - QueryStartRegion = 2
    /\ call.ret = 1


=============================================================================
